---- MODULE Spec2Model ----
(***************************************************************************)
(* Order lifecycle and reconciliation core of MEXC_WBAR.                   *)
(*                                                                         *)
(* Three entry points of the repository drive the same kind of state:      *)
(*   "main"    src/src/main.py: OrderManager.place_entry_order and         *)
(*             OrderManager.check_orders_status in one asyncio loop;       *)
(*   "monitor" run_bot.py: OrderManager.place_entry_order and              *)
(*             OrderMonitor.run in one asyncio loop;                       *)
(*   "core"    scripts/run_bot.py: WBARSimpleStrategy.place_entry on the   *)
(*             main loop, core OrderManager.on_fill on the WebSocket       *)
(*             thread, the exit worker thread.                             *)
(* The variable deployment says which one is running.                      *)
(*                                                                         *)
(* Lot sizes are counted in units of 1/LotScale lot, so that the float     *)
(* arithmetic of the code (math.ceil of a fractional lot) is exact.        *)
(*                                                                         *)
(* Time is counted in seconds and kept relative to time.time(): the        *)
(* deadline order_lock_until is stored as the seconds left until it, a     *)
(* timestamp (order_timestamp, last_trade_time) as the seconds elapsed     *)
(* since it, saturating one step after the timeout it is compared with.    *)
(* A comparison of the code such as time.time() < order_lock_until reads   *)
(* here order_lock_until > 0.  The action Tick lets TickSec seconds pass;  *)
(* any number of ticks may pass while a coroutine sleeps or a call blocks. *)
(***************************************************************************)
EXTENDS Integers, Sequences, FiniteSets, TLC

(* ------------------------------ bounds -------------------------------- *)
MaxOrders == 3
MaxResults == 2

(* ------------------------- program constants -------------------------- *)
\* Lot sizes are counted in units of 1/LotScale, so that a fractional LOT_SIZE
\* (settings.LOT_SIZE is a float) is an integer here.  Times are counted in
\* seconds and pass in steps of the polling interval.  ORDER_TIMEOUT_SEC and
\* MAX_CONSECUTIVE_LOSSES are settings read from the environment; the values
\* here are small settings that one polling interval and one loss after a
\* restored loss reach.
martingale_factor == 2
LOCK_SEC == 5
max_attempts == 3
LotScale == 2 * 2
LotSizes == {1, LotScale}
TickSec == 5
ResetTimeouts == {0, TickSec}

None == 0
ORDER_TIMEOUT_SEC == 5
MAX_CONSECUTIVE_LOSSES == 2
PERSISTENCE_ENABLED == TRUE
EntryFill == 100
Sides == {"LONG"}
OrderIds == 1..MaxOrders
Tasks == {"main", "aux"}
MAX_DAILY_LOSS_PCT == -2
MAX_CONSECUTIVE_LOSS == 2
Balance == 1000
Pnls == {-20, -10, 10}

VARIABLES
    deployment,                  \* which entry point runs
    lot_size,                    \* settings.LOT_SIZE
    MARTINGALE_RESET_TIMEOUT,    \* settings.MARTINGALE_RESET_TIMEOUT
    om,                          \* the fields of OrderManager
    state_file,                  \* contents of settings.TRADE_STATE_FILE
    ex,                          \* the exchange: orders and position
    pc,                          \* position of each coroutine
    loc,                         \* locals of each coroutine
    results,                     \* trade results passed to log_trade_result
    cancel_requests,             \* order ids that the step just taken passed
                                 \* to _cancel_orders, in call order
    last,                        \* what the step just taken was: the query
                                 \* that made place_entry_order refuse, a
                                 \* start of the process
    core,                        \* core OrderManager: _exit_map, _exit_queue
                                 \* and the payload the exit worker is sending
    bot_monitor,                 \* the BotMonitor of main.py
    risk_guard                   \* the RiskGuard of scripts/run_bot.py and
                                 \* the stop_event it shares with main_loop

vars == <<deployment, lot_size, MARTINGALE_RESET_TIMEOUT,
          om, state_file, ex, pc, loc, results, cancel_requests, last, core,
          bot_monitor, risk_guard>>

(* ---------------------- dictionaries (ordered) ------------------------ *)
\* A Python dict is a sequence of <<key, value>> pairs in insertion order.
\* A key is <<"num", n>> for the number n and <<"str", n>> for its JSON text.
Num(n) == <<"num", n>>
Str(k) == <<"str", k[2]>>
EmptyDict == <<>>
Keys(d) == {d[i][1] : i \in 1..Len(d)}
Values(d) == {d[i][2] : i \in 1..Len(d)}
HasKey(d, k) == k \in Keys(d)
Get(d, k) == LET i == CHOOSE j \in 1..Len(d) : d[j][1] = k IN d[i][2]
Del(d, k) == SelectSeq(d, LAMBDA p : p[1] # k)
Put(d, k, v) ==
    IF HasKey(d, k)
    THEN [i \in 1..Len(d) |-> IF d[i][1] = k THEN <<k, v>> ELSE d[i]]
    ELSE Append(d, <<k, v>>)

\* json.dump followed by json.load: every key comes back as a string
JsonKeys(d) == [i \in 1..Len(d) |-> <<Str(d[i][1]), d[i][2]>>]

(* ------------------------------ sizing -------------------------------- *)
\* math.ceil(x) for x given in units of 1/LotScale
Ceil(v) == ((v + LotScale - 1) \div LotScale) * LotScale

\* math.ceil(self.dynamic_lot_size * self.martingale_factor)
next_lot(lot) == Ceil(lot * martingale_factor)

RECURSIVE Pow(_, _)
Pow(b, n) == IF n = 0 THEN 1 ELSE b * Pow(b, n - 1)

(* ----------------------------- exchange ------------------------------- *)
NewOrders == {o \in OrderIds : ex.kind[o] = "none"}
HasFreeOrder == NewOrders # {}
NewOid == CHOOSE o \in NewOrders : \A p \in NewOrders : o <= p
OpenOrders == {o \in OrderIds : ex.status[o] = "open"}
Entries == {o \in OrderIds : ex.kind[o] = "entry"}

\* the exchange accepts an order of the given kind
Submit(e, kind, o) ==
    [e EXCEPT !.kind[o] = kind, !.status[o] = "open",
              !.trade[o] = Cardinality({p \in OrderIds : e.kind[p] = "entry"})
                           + (IF kind = "entry" THEN 1 ELSE 0)]

\* the exchange accepts an exit order that was queued for the given entry
SubmitFor(e, kind, o, entry) ==
    [e EXCEPT !.kind[o] = kind, !.status[o] = "open", !.trade[o] = e.trade[entry]]

\* a cancel request reaches the exchange; it takes effect on an open order
CancelAt(e, o, ok) ==
    IF ok /\ e.status[o] = "open" THEN [e EXCEPT !.status[o] = "canceled"] ELSE e

check_order_filled_retry_mutant(e, o, fetchOk) ==
    IF o = None THEN "unknown" ELSE IF ~fetchOk THEN "closed" ELSE e.status[o]
\* _check_order_filled_retry: the exchange's status, or "unknown" when every
\* attempt failed
check_order_filled_retry(e, o, fetchOk) ==
    IF o = None \/ ~fetchOk THEN "unknown" ELSE e.status[o]

(* ---------------------------- state store ----------------------------- *)
StateKeys == {"trade_id", "dynamic_lot_size", "consecutive_losses",
              "open_position_side", "last_trade_time", "tp_order_ids",
              "sl_order_ids", "entry_price"}
ResetKeys == {"trade_id", "dynamic_lot_size", "consecutive_losses",
              "last_trade_time", "reset_time"}

\* no file at settings.TRADE_STATE_FILE
NoFile ==
    [exists |-> FALSE, keys |-> {}, trade_id |-> None, dynamic_lot_size |-> 0,
     consecutive_losses |-> 0, open_position_side |-> "NONE",
     last_trade_time |-> 0, tp_order_ids |-> EmptyDict,
     sl_order_ids |-> EmptyDict, entry_price |-> None]

\* the dict that _save_trade_state dumps, as json.load returns it
Snapshot(o) ==
    [exists |-> TRUE, keys |-> StateKeys, trade_id |-> o.current_trade_id,
     dynamic_lot_size |-> o.dynamic_lot_size,
     consecutive_losses |-> o.consecutive_losses,
     open_position_side |-> o.open_position_side,
     last_trade_time |-> 0,
     tp_order_ids |-> JsonKeys(o.tp_order_ids),
     sl_order_ids |-> JsonKeys(o.sl_order_ids),
     entry_price |-> o.entry_price]

\* OrderManager._save_trade_state
save_trade_state_mutant(o, file) == file
save_trade_state(o, file) ==
    IF PERSISTENCE_ENABLED THEN Snapshot(o) ELSE file

\* the dict that reset_martingale dumps
ResetSnapshot ==
    [NoFile EXCEPT !.exists = TRUE, !.keys = ResetKeys,
                   !.dynamic_lot_size = lot_size, !.last_trade_time = 0]

\* OrderManager._is_state_reset_needed
is_state_reset_needed_mutant(saved) ==
    \/ ~saved.exists
    \/ "trade_id" \notin saved.keys
    \/ "dynamic_lot_size" \notin saved.keys
is_state_reset_needed(saved) ==
    \/ ~saved.exists
    \/ "trade_id" \notin saved.keys
    \/ "dynamic_lot_size" \notin saved.keys
    \/ /\ MARTINGALE_RESET_TIMEOUT > 0
       /\ (IF "last_trade_time" \in saved.keys THEN saved.last_trade_time ELSE MARTINGALE_RESET_TIMEOUT + 1)
             > MARTINGALE_RESET_TIMEOUT

\* the fields set by OrderManager.__init__ before the restore
FreshManager ==
    [current_trade_id |-> None, open_position_side |-> "NONE",
     entry_order_id |-> None, entry_price |-> None, order_timestamp |-> -1,
     tp_order_ids |-> EmptyDict, sl_order_ids |-> EmptyDict,
     order_lock_until |-> 0, dynamic_lot_size |-> lot_size,
     consecutive_losses |-> 0, tp_order_retry_needed |-> FALSE,
     tp_filled_price |-> None]

\* OrderManager.reset_martingale: the fields it clears
reset_martingale(o) ==
    [o EXCEPT !.dynamic_lot_size = lot_size, !.consecutive_losses = 0,
              !.current_trade_id = None, !.entry_order_id = None,
              !.entry_price = None, !.order_timestamp = -1,
              !.tp_order_ids = EmptyDict, !.sl_order_ids = EmptyDict,
              !.open_position_side = "NONE"]

\* the file reset_martingale leaves
reset_martingale_file(file) ==
    IF PERSISTENCE_ENABLED THEN ResetSnapshot ELSE file

\* saved_state.get(k, default)
StateGet(saved, k, default) == IF k \in saved.keys THEN saved[k] ELSE default

\* the file holds no complete JSON document: open(..., 'w') has truncated it
\* and json.dump has not finished
Truncated == [NoFile EXCEPT !.exists = TRUE]
load_failed(file) == PERSISTENCE_ENABLED /\ file.exists /\ file.keys = {}

\* OrderManager._load_trade_state: None (here NoFile) when there is no file
\* or json.load raises
load_trade_state(file) ==
    IF ~PERSISTENCE_ENABLED \/ ~file.exists \/ load_failed(file) THEN NoFile ELSE file

\* OrderManager._restore_trade_state: the manager after the restore
restore_trade_state(o, saved) ==
    IF ~load_trade_state(saved).exists THEN o
    ELSE IF is_state_reset_needed(saved) THEN reset_martingale(o)
    ELSE [o EXCEPT !.current_trade_id = StateGet(saved, "trade_id", None),
                   !.dynamic_lot_size = StateGet(saved, "dynamic_lot_size", lot_size),
                   !.consecutive_losses = StateGet(saved, "consecutive_losses", 0),
                   !.open_position_side = StateGet(saved, "open_position_side", "NONE"),
                   !.tp_order_ids = StateGet(saved, "tp_order_ids", EmptyDict),
                   !.sl_order_ids = StateGet(saved, "sl_order_ids", EmptyDict),
                   !.entry_price = StateGet(saved, "entry_price", None)]

\* the file after _restore_trade_state
restore_trade_state_file(saved) ==
    IF load_trade_state(saved).exists /\ is_state_reset_needed(saved)
    THEN reset_martingale_file(saved) ELSE saved

(* ----------------- BotMonitor (monitor.py, main.py) ------------------- *)
\* BotMonitor.__init__; alerts counts the rounds of notifications (Discord,
\* mail, call) that trigger_alert has sent
BotMonitor(cap) ==
    [consecutive_losses |-> 0, monitoring_active |-> TRUE,
     max_consecutive_losses |-> cap, alert_sent |-> FALSE, alerts |-> 0]
\* run_bot.py and scripts/run_bot.py build no BotMonitor
NoMonitor == BotMonitor(0)
\* the values of MAX_CONSECUTIVE_LOSSES that main.py is started with (line
\* 32): a cap of one loss where it trades the unit lot, the cap of the
\* settings where it trades the larger lot
LossCaps == IF lot_size = 1 THEN {1} ELSE {MAX_CONSECUTIVE_LOSSES}

trigger_alert_mutant(m) ==
    [m EXCEPT !.alerts = @ + 1, !.alert_sent = TRUE, !.monitoring_active = FALSE]
\* BotMonitor.trigger_alert
trigger_alert(m) ==
    IF m.alert_sent THEN m
    ELSE [m EXCEPT !.alerts = @ + 1, !.alert_sent = TRUE,
                   !.monitoring_active = FALSE]

\* BotMonitor.update_trade_result
update_trade_result(m, trade_result) ==
    IF trade_result.exit_type = "SL"
    THEN LET m1 == [m EXCEPT !.consecutive_losses = @ + 1]
         IN  IF m1.consecutive_losses >= m1.max_consecutive_losses
             THEN trigger_alert(m1) ELSE m1
    ELSE [m EXCEPT !.consecutive_losses = 0]

\* the calls of self.monitor.update_trade_result of one reconciliation cycle
\* (lines 482-483, 537-538, 605-606), in the order of the logged results
RECURSIVE update_trade_results(_, _)
update_trade_results(m, trade_results) ==
    IF trade_results = <<>> THEN m
    ELSE update_trade_results(update_trade_result(m, Head(trade_results)),
                              Tail(trade_results))

\* LogMonitorHandler.emit: BotMonitor installs it on the root logger, so a
\* record that main.py's process logs at ERROR level reaches trigger_alert
log_error(m, error) ==
    IF deployment = "main" /\ error THEN trigger_alert(m) ELSE m

\* BotMonitor.is_bot_running, asked at the head of the loop of main.py
is_bot_running == bot_monitor.monitoring_active
Running(t) == (deployment = "main" /\ pc[t] = "loop") => is_bot_running

(* ------------------- RiskGuard (monitor/risk_guard.py) ---------------- *)
\* RiskGuard.__init__ and the threading.Event of scripts/run_bot.py; told
\* counts the logged fills that were passed on to _on_local_fill
NoRiskGuard ==
    [daily_pnl |-> 0, consec_losses |-> <<>>, stop_event |-> FALSE, told |-> 0]

Window_mutant(q) == q
\* deque(maxlen=MAX_CONSECUTIVE_LOSS).append
Window(q) ==
    IF Len(q) > MAX_CONSECUTIVE_LOSS THEN SubSeq(q, 2, Len(q)) ELSE q

\* RiskGuard.on_trade; new_day says that the UTC date has changed
on_trade(g, pnl, new_day) ==
    LET daily == (IF new_day THEN 0 ELSE g.daily_pnl) + pnl
        q == Window(Append(IF new_day THEN <<>> ELSE g.consec_losses, pnl))
        consec_loss_cnt == Cardinality({i \in 1..Len(q) : q[i] < 0})
    IN  [g EXCEPT !.daily_pnl = daily, !.consec_losses = q,
                  !.stop_event = \/ @
                                 \/ daily * 100 <= MAX_DAILY_LOSS_PCT * Balance
                                 \/ consec_loss_cnt >= MAX_CONSECUTIVE_LOSS]

(* -------------------- OrderManager: entry placement ------------------- *)
has_open_position_or_order_mutant(posOk, fetchOk, ordOk) ==
    IF om.order_lock_until > 0 THEN TRUE
    ELSE IF ~posOk THEN FALSE
    ELSE IF ex.pos > 0 THEN TRUE
    ELSE IF ~ordOk THEN FALSE
    ELSE OpenOrders # {}
\* OrderManager.has_open_position_or_order; posOk, fetchOk, ordOk say whether
\* fetch_positions, fetch_order and fetch_open_orders answer
has_open_position_or_order(posOk, fetchOk, ordOk) ==
    IF om.order_lock_until > 0 THEN TRUE
    ELSE IF ~posOk THEN TRUE
    ELSE IF ex.pos > 0 THEN TRUE
    ELSE IF om.tp_order_ids # EmptyDict \/ om.sl_order_ids # EmptyDict THEN TRUE
    ELSE IF /\ om.entry_order_id # None
            /\ check_order_filled_retry(ex, om.entry_order_id, fetchOk) = "open"
         THEN TRUE
    ELSE IF ~ordOk THEN TRUE
    ELSE OpenOrders # {}

\* f"T{datetime.utcnow().strftime('%Y%m%d_%H%M%S')}": the id names the entry
\* it is generated for (the next entry the exchange will see)
NewTradeId == Cardinality(Entries) + 1

\* place_entry_order, lines 144-161: trade id, side, trade_info
PrepareEntry(o, side) ==
    LET saved == state_file
        o1 == IF o.current_trade_id # None THEN o
              ELSE IF PERSISTENCE_ENABLED /\ saved.exists /\ ~is_state_reset_needed(saved)
              THEN [o EXCEPT !.current_trade_id = StateGet(saved, "trade_id", None),
                             !.dynamic_lot_size = StateGet(saved, "dynamic_lot_size", lot_size),
                             !.consecutive_losses = StateGet(saved, "consecutive_losses", 0),
                             !.open_position_side = StateGet(saved, "open_position_side", "NONE")]
              ELSE [o EXCEPT !.current_trade_id = NewTradeId]
    IN  [o1 EXCEPT !.open_position_side = side,
                   !.tp_order_retry_needed = FALSE,
                   !.tp_filled_price = None]

NoCall == "none"
\* the step just taken sent the request for an entry order to the exchange
EntryRequest == "entry_request"
\* the step just taken was a pass in which every status query stayed
\* unanswered, so that _check_order_filled_retry returned "unknown"
StatusUnknown == "status_unknown"

\* the except branches of has_open_position_or_order (lines 111-113, 128-130):
\* the query that raised, if the call got to one
query_error(posOk, fetchOk, ordOk) ==
    IF om.order_lock_until > 0 THEN NoCall
    ELSE IF ~posOk THEN "fetch_positions"
    ELSE IF \/ ex.pos > 0
            \/ om.tp_order_ids # EmptyDict \/ om.sl_order_ids # EmptyDict
            \/ /\ om.entry_order_id # None
               /\ check_order_filled_retry(ex, om.entry_order_id, fetchOk) = "open"
         THEN NoCall
    ELSE IF ~ordOk THEN "fetch_open_orders"
    ELSE NoCall

\* an answer is drawn only for a call that place_entry_order makes: the
\* queries of has_open_position_or_order in their order, then the submission
Queried(posOk, fetchOk, ordOk, resp) ==
    LET locked == om.order_lock_until > 0
        local == \/ locked \/ ~posOk \/ ex.pos > 0
                 \/ om.tp_order_ids # EmptyDict \/ om.sl_order_ids # EmptyDict
        entry_open == /\ om.entry_order_id # None
                      /\ check_order_filled_retry(ex, om.entry_order_id, fetchOk) = "open"
    IN  /\ locked => posOk
        /\ (local \/ om.entry_order_id = None) => fetchOk
        /\ (local \/ entry_open) => ordOk
        /\ has_open_position_or_order(posOk, fetchOk, ordOk) => resp

\* where a task stands between two calls: the loop of main.py and run_bot.py
\* runs on "main"; "aux" is a second caller of WBARSimpleStrategy.place_entry
After(t) == IF t = "main" THEN "check" ELSE "idle"
Start(t) == IF t = "main" \/ deployment = "core" THEN "loop" ELSE "idle"
NoLocals == [size |-> 0, price |-> None, attempt |-> 0, entry_id |-> None]

\* OrderManager.place_entry_order up to its first await (line 210)
place_entry_order(t, side, posOk, fetchOk, ordOk, resp) ==
    /\ deployment \in {"main", "monitor"}
    /\ pc[t] = Start(t)
    /\ Running(t)
    /\ Queried(posOk, fetchOk, ordOk, resp)
    /\ IF has_open_position_or_order(posOk, fetchOk, ordOk)
       THEN /\ last' = query_error(posOk, fetchOk, ordOk)
            /\ UNCHANGED <<om, state_file, ex, pc, loc>>
       ELSE LET o1 == PrepareEntry(om, side)
            IN  IF resp /\ HasFreeOrder
                THEN LET oid == NewOid
                         o2 == [o1 EXCEPT !.entry_order_id = oid,
                                          !.order_timestamp = 0,
                                          !.order_lock_until = LOCK_SEC]
                     IN  /\ om' = o2
                         /\ ex' = Submit(ex, "entry", oid)
                         /\ state_file' = save_trade_state(o2, state_file)
                         /\ pc' = [pc EXCEPT ![t] = "pe_confirm"]
                         /\ last' = EntryRequest
                         /\ UNCHANGED loc
                ELSE /\ om' = o1
                     /\ pc' = [pc EXCEPT ![t] = After(t)]
                     /\ last' = EntryRequest
                     /\ UNCHANGED <<state_file, ex, loc>>
    /\ cancel_requests' = <<>>
    /\ bot_monitor' = log_error(bot_monitor,
                          IF has_open_position_or_order(posOk, fetchOk, ordOk)
                          THEN query_error(posOk, fetchOk, ordOk) # NoCall
                          ELSE ~(resp /\ HasFreeOrder))
    /\ UNCHANGED <<deployment, risk_guard, core, lot_size, MARTINGALE_RESET_TIMEOUT, results>>

\* place_take_profit_order, lines 280-288: nothing to submit
tp_order_exists(o) == HasKey(o.tp_order_ids, Num(o.dynamic_lot_size))

\* one turn of the while loop of place_take_profit_order (lines 328-355):
\* the manager and the exchange after an accepted submission
tp_order_placed(o, size, oid) == [o EXCEPT !.tp_order_ids = Put(@, Num(size), oid)]

\* place_entry_order, lines 242-262: the caller's handling of the result
EntryTpDone(o, tp_success, price) ==
    IF tp_success THEN o
    ELSE [o EXCEPT !.tp_order_retry_needed = TRUE, !.tp_filled_price = price]

\* place_entry_order after asyncio.sleep(3): the confirmation of the entry and
\* the first submission of place_take_profit_order (lines 213-239, 280-355)
confirm_entry(t, fetchOk, resp) ==
    /\ pc[t] = "pe_confirm"
    /\ LET status == check_order_filled_retry(ex, om.entry_order_id, fetchOk)
       IN  IF status # "closed"
           THEN /\ pc' = [pc EXCEPT ![t] = After(t)]
                /\ UNCHANGED <<om, ex, state_file, loc>>
           ELSE IF tp_order_exists(om)
           THEN /\ state_file' = save_trade_state(om, state_file)
                /\ pc' = [pc EXCEPT ![t] = "pe_final"]
                /\ UNCHANGED <<om, ex, loc>>
           ELSE IF resp /\ HasFreeOrder
           THEN LET o1 == tp_order_placed(om, om.dynamic_lot_size, NewOid)
                IN  /\ om' = o1
                    /\ ex' = Submit(ex, "tp", NewOid)
                    /\ state_file' = save_trade_state(o1, state_file)
                    /\ pc' = [pc EXCEPT ![t] = "pe_final"]
                    /\ UNCHANGED loc
           ELSE /\ pc' = [pc EXCEPT ![t] = "pe_tp"]
                /\ loc' = [loc EXCEPT ![t] = [NoLocals EXCEPT
                                              !.size = om.dynamic_lot_size,
                                              !.price = EntryFill, !.attempt = 1]]
                /\ UNCHANGED <<om, ex, state_file>>
    /\ last' = IF fetchOk THEN NoCall ELSE StatusUnknown
    /\ cancel_requests' = <<>>
    /\ bot_monitor' = log_error(bot_monitor,
           check_order_filled_retry(ex, om.entry_order_id, fetchOk) # "closed")
    /\ UNCHANGED <<deployment, risk_guard, core, lot_size, MARTINGALE_RESET_TIMEOUT, results>>

\* place_take_profit_order after the asyncio.sleep(1) that follows a rejected
\* submission (lines 328-362), and the caller's handling of the result when
\* the loop ends (lines 242-262 in place_entry_order, 378-383 in
\* check_orders_status)
place_take_profit_order(t, resp) ==
    /\ pc[t] \in {"pe_tp", "co_tp"}
    /\ IF loc[t].attempt < max_attempts /\ resp /\ HasFreeOrder
       THEN LET o1 == tp_order_placed(om, loc[t].size, NewOid)
                o2 == IF pc[t] = "co_tp"
                      THEN [o1 EXCEPT !.tp_order_retry_needed = FALSE,
                                      !.tp_filled_price = None]
                      ELSE o1
            IN  /\ om' = o2
                /\ ex' = Submit(ex, "tp", NewOid)
                /\ state_file' = IF pc[t] = "pe_tp"
                                 THEN save_trade_state(o2, state_file)
                                 ELSE state_file
                /\ pc' = [pc EXCEPT ![t] = IF pc[t] = "pe_tp" THEN "pe_final" ELSE "co_main"]
                /\ loc' = [loc EXCEPT ![t] = NoLocals]
       ELSE IF loc[t].attempt < max_attempts
       THEN /\ loc' = [loc EXCEPT ![t].attempt = @ + 1]
            /\ UNCHANGED <<om, ex, state_file, pc>>
       ELSE LET o1 == IF pc[t] = "pe_tp"
                      THEN EntryTpDone(om, FALSE, loc[t].price) ELSE om
            IN  /\ om' = o1
                /\ state_file' = IF pc[t] = "pe_tp"
                                 THEN save_trade_state(o1, state_file)
                                 ELSE state_file
                /\ pc' = [pc EXCEPT ![t] = IF pc[t] = "pe_tp" THEN "pe_final" ELSE "co_main"]
                /\ loc' = [loc EXCEPT ![t] = NoLocals]
                /\ UNCHANGED ex
    /\ last' = NoCall
    /\ cancel_requests' = <<>>
    /\ bot_monitor' = log_error(bot_monitor, loc[t].attempt >= max_attempts)
    /\ UNCHANGED <<deployment, risk_guard, core, lot_size, MARTINGALE_RESET_TIMEOUT, results>>

\* place_entry_order after its last asyncio.sleep(2) (line 263)
finish_entry(t) ==
    /\ pc[t] = "pe_final"
    /\ pc' = [pc EXCEPT ![t] = After(t)]
    /\ last' = NoCall
    /\ cancel_requests' = <<>>
    /\ UNCHANGED <<deployment, bot_monitor, risk_guard, core, lot_size, MARTINGALE_RESET_TIMEOUT, om, state_file, ex, loc, results>>

(* ------------------- OrderManager: reconciliation --------------------- *)
\* the state a reconciliation cycle threads through its loops
Cycle(o, f, e, r, c) ==
    [om |-> o, file |-> f, ex |-> e, results |-> r, cancels |-> c, done |-> FALSE]

\* the dict handed to log_trade_result
TradeResult(S, oid, exit_type, status) ==
    [trade |-> S.ex.trade[oid], oid |-> oid, exit_type |-> exit_type,
     status |-> status, lot |-> S.om.dynamic_lot_size,
     losses |-> S.om.consecutive_losses, run |-> "this", again |-> FALSE]

\* the fills already handled in this run that the exchange still reports as
\* filled (to a later poll) or notifies again (oid is the notified order)
Redelivered(r, e, oid) ==
    [i \in 1..Len(r) |->
        IF /\ r[i].run = "this" /\ e.status[r[i].oid] = "closed"
           /\ oid \in {None, r[i].oid}
        THEN [r[i] EXCEPT !.again = TRUE] ELSE r[i]]

\* OrderManager._cancel_orders for one order id
cancel_orders(S, oid, ok) ==
    [S EXCEPT !.cancels = Append(@, oid),
              !.ex = CancelAt(S.ex, oid, ok)]

clear_order_info_mutant(o) ==
    [o EXCEPT !.order_timestamp = -1, !.order_lock_until = LOCK_SEC]
\* OrderManager._clear_order_info
clear_order_info(o) ==
    [o EXCEPT !.entry_order_id = None, !.order_timestamp = -1,
              !.order_lock_until = LOCK_SEC,
              !.tp_order_ids = EmptyDict, !.sl_order_ids = EmptyDict]

\* del d[size], then cancel and delete the sibling's entry under the same key
DropPair(S, mine, sibling, size, cancelOk) ==
    LET o1 == [S.om EXCEPT ![mine] = Del(@, size)]
    IN  IF HasKey(o1[sibling], size)
        THEN [cancel_orders(S, Get(o1[sibling], size), cancelOk)
                 EXCEPT !.om = [o1 EXCEPT ![sibling] = Del(@, size)]]
        ELSE [S EXCEPT !.om = o1]

\* the martingale step of check_orders_status (lines 490-494, 621-625)
apply_loss(S) ==
    LET o2 == [S.om EXCEPT !.consecutive_losses = @ + 1,
                           !.dynamic_lot_size = next_lot(@)]
    IN  [S EXCEPT !.om = o2, !.file = save_trade_state(o2, S.file)]

apply_win_mutant(S) ==
    LET o2 == [S.om EXCEPT !.consecutive_losses = 0]
    IN  [S EXCEPT !.om = clear_order_info(o2),
                  !.file = save_trade_state(o2, S.file), !.done = TRUE]
\* the reset of check_orders_status after a TP fill (lines 553-560)
apply_win(S) ==
    LET o2 == [S.om EXCEPT !.consecutive_losses = 0,
                           !.dynamic_lot_size = lot_size]
    IN  [S EXCEPT !.om = clear_order_info(o2),
                  !.file = save_trade_state(o2, S.file), !.done = TRUE]

\* check_orders_status, the loop over tp_order_ids (lines 437-560)
RECURSIVE check_tp_orders(_, _, _, _)
check_tp_orders(S, items, obs, cancelOk) ==
    IF items = <<>> \/ S.done THEN S
    ELSE LET size == Head(items)[1]
             oid == Head(items)[2]
             status == check_order_filled_retry(S.ex, oid, obs[oid])
             logged == [S EXCEPT !.results =
                           Append(@, TradeResult(S, oid,
                                  IF status = "closed" THEN "TP" ELSE "SL", status))]
         IN  IF status = "canceled"
             THEN check_tp_orders(
                      apply_loss(DropPair(logged, "tp_order_ids", "sl_order_ids",
                                          size, cancelOk)),
                      Tail(items), obs, cancelOk)
             ELSE IF status = "closed"
             THEN apply_win(DropPair(logged, "tp_order_ids", "sl_order_ids",
                                     size, cancelOk))
             ELSE check_tp_orders(S, Tail(items), obs, cancelOk)

\* check_orders_status, the loop over sl_order_ids (lines 562-628)
RECURSIVE check_sl_orders(_, _, _, _)
check_sl_orders(S, items, obs, cancelOk) ==
    IF items = <<>> \/ S.done THEN S
    ELSE LET size == Head(items)[1]
             oid == Head(items)[2]
             status == check_order_filled_retry(S.ex, oid, obs[oid])
             logged == [S EXCEPT !.results =
                           Append(@, TradeResult(S, oid, "SL", status))]
         IN  IF status = "closed"
             THEN LET S1 == apply_loss(DropPair(logged, "sl_order_ids",
                                                "tp_order_ids", size, cancelOk))
                  IN  [S1 EXCEPT !.om = clear_order_info(@), !.done = TRUE]
             ELSE check_sl_orders(S, Tail(items), obs, cancelOk)

\* what _is_entry_order_expired finds once the timeout has passed: partial
\* says that the entry order is partially filled and partialOk that the
\* fetch_order of the partial-fill check answers (lines 689-695), price that
\* current_market_price is set (line 696), orderOk that the second
\* fetch_order answers (line 699) and zone that the market price is in the
\* continuation zone (lines 703-710). What the code does not get to read is
\* drawn only where the outcome of the step can tell it
ExpiryChecks ==
    {q \in [partialOk : BOOLEAN, partial : BOOLEAN, price : BOOLEAN,
            orderOk : BOOLEAN, zone : BOOLEAN] :
        /\ ~q.price => (q.orderOk /\ ~q.zone)
        /\ (q.partialOk /\ q.partial) => (q.price /\ q.orderOk /\ ~q.zone)}
Quiet == [partialOk |-> TRUE, partial |-> FALSE, price |-> TRUE,
          orderOk |-> TRUE, zone |-> FALSE]
\* lines 681-687: the timeout has passed
timeout_elapsed(o) ==
    /\ o.order_timestamp # -1
    /\ o.order_timestamp > ORDER_TIMEOUT_SEC
\* OrderManager._is_entry_order_expired
is_entry_order_expired(o, q) ==
    /\ timeout_elapsed(o)
    /\ ~(q.partialOk /\ q.partial)
    /\ \/ ~q.price
       \/ ~q.orderOk
       \/ o.open_position_side \notin {"LONG", "SHORT"}
       \/ ~q.zone
\* the logger.error calls of _is_entry_order_expired (lines 695, 712, 715)
expiry_error(o, q) ==
    /\ timeout_elapsed(o)
    /\ \/ ~q.partialOk
       \/ /\ ~(q.partialOk /\ q.partial)
          /\ q.price
          /\ ~q.orderOk \/ o.open_position_side \notin {"LONG", "SHORT"}

\* the order ids a reconciliation cycle asks the exchange about
Tracked(o) == ({o.entry_order_id} \cup Values(o.tp_order_ids)
                                 \cup Values(o.sl_order_ids)) \ {None}

\* obs says which status queries of a cycle are answered; a cycle asks about
\* tracked ids only.  cancelOk says whether the exchange accepts the cancel
\* requests of the cycle, q what the check of an entry past its timeout
\* finds; they are drawn only for a cycle that gets to ask
Asked(obs) == \A i \in OrderIds : obs[i] => i \in Tracked(om)
\* the answers a cycle can get: to any of the queries about the tracked ids
Answers == {[i \in OrderIds |-> i \in A] : A \in SUBSET Tracked(om)}
StatusLabel(obs) ==
    IF Tracked(om) # {} /\ \A i \in OrderIds : ~obs[i]
    THEN StatusUnknown ELSE NoCall
\* the status of the recorded entry order as a cycle with answers obs reads it
entry_status(obs) ==
    check_order_filled_retry(ex, om.entry_order_id,
        IF om.entry_order_id = None THEN FALSE ELSE obs[om.entry_order_id])
\* the cycle gets to _is_entry_order_expired (line 424) past the timeout
ExpiryChecked(obs) ==
    /\ om.entry_order_id # None
    /\ entry_status(obs) \notin {"closed", "canceled"}
    /\ timeout_elapsed(om)
\* the step just taken checked an entry past its timeout, and what was true
\* of the order and of the market price then
ExpiryLabel(q) ==
    "expiry" \o (IF q.partial THEN "_partial" ELSE "")
             \o (IF q.price /\ q.zone THEN "_zone" ELSE "")
ToLoop(t) == [pc EXCEPT ![t] = "loop"]
AtCheck(t) == t = "main" /\ pc[t] \in {"loop", "check"} /\ Running(t)

\* check_orders_status, the retry of a failed TP placement (lines 373-385);
\* the manager after a successful retry
retry_done(o) == [o EXCEPT !.tp_order_retry_needed = FALSE, !.tp_filled_price = None]

retry_needed(o) == o.tp_order_retry_needed /\ o.tp_filled_price # None

\* check_orders_status up to the first await of the retry (lines 373-385,
\* 280-355): the first submission of the retried TP order
retry_take_profit(t, resp) ==
    /\ deployment = "main"
    /\ AtCheck(t)
    /\ retry_needed(om)
    /\ IF tp_order_exists(om)
       THEN /\ om' = retry_done(om)
            /\ pc' = [pc EXCEPT ![t] = "co_main"]
            /\ UNCHANGED <<ex, loc>>
       ELSE IF resp /\ HasFreeOrder
       THEN /\ om' = retry_done(tp_order_placed(om, om.dynamic_lot_size, NewOid))
            /\ ex' = Submit(ex, "tp", NewOid)
            /\ pc' = [pc EXCEPT ![t] = "co_main"]
            /\ UNCHANGED loc
       ELSE /\ pc' = [pc EXCEPT ![t] = "co_tp"]
            /\ loc' = [loc EXCEPT ![t] = [NoLocals EXCEPT
                                          !.size = om.dynamic_lot_size,
                                          !.price = om.tp_filled_price,
                                          !.attempt = 1]]
            /\ UNCHANGED <<om, ex>>
    /\ last' = NoCall
    /\ cancel_requests' = <<>>
    /\ UNCHANGED <<deployment, bot_monitor, risk_guard, core, lot_size, MARTINGALE_RESET_TIMEOUT, state_file, results>>

\* check_orders_status from line 388 on: the entry order, then the TP orders,
\* then the SL orders
check_orders_status_pass(t, obs, cancelOk, q) ==
    /\ deployment = "main"
    /\ \/ AtCheck(t) /\ ~retry_needed(om)
       \/ pc[t] = "co_main"
    /\ Asked(obs)
    /\ q # Quiet => ExpiryChecked(obs)
    /\ LET S0 == Cycle(om, state_file, ex, results, <<>>)
           status == entry_status(obs)
           err == ExpiryChecked(obs) /\ expiry_error(om, q)
       IN  IF om.entry_order_id # None /\ status = "closed"
           THEN LET o1 == [om EXCEPT !.entry_order_id = None,
                                     !.entry_price = EntryFill]
                IN  /\ cancelOk
                    /\ om' = o1
                    /\ state_file' = save_trade_state(o1, state_file)
                    /\ pc' = ToLoop(t)
                    /\ cancel_requests' = <<>>
                    /\ UNCHANGED <<ex, results, bot_monitor>>
           ELSE IF om.entry_order_id # None /\ status = "canceled"
           THEN /\ cancelOk
                /\ om' = clear_order_info(om)
                /\ pc' = ToLoop(t)
                /\ cancel_requests' = <<>>
                /\ UNCHANGED <<state_file, ex, results, bot_monitor>>
           ELSE IF om.entry_order_id # None /\ is_entry_order_expired(om, q)
           THEN LET S1 == cancel_orders(S0, om.entry_order_id, cancelOk)
                IN  /\ ex' = S1.ex
                    /\ cancel_requests' = S1.cancels
                    /\ pc' = [pc EXCEPT ![t] = "co_cancel"]
                    /\ bot_monitor' = log_error(bot_monitor, err)
                    /\ UNCHANGED <<om, state_file, results>>
           ELSE LET S1 == check_tp_orders([S0 EXCEPT !.results = Redelivered(@, ex, None)],
                                          om.tp_order_ids, obs, cancelOk)
                    S2 == check_sl_orders(S1, S1.om.sl_order_ids, obs, cancelOk)
                IN  /\ Len(S2.results) <= MaxResults
                    /\ S2.cancels = <<>> => cancelOk
                    /\ om' = S2.om
                    /\ state_file' = S2.file
                    /\ ex' = S2.ex
                    /\ results' = S2.results
                    /\ cancel_requests' = S2.cancels
                    /\ bot_monitor' = update_trade_results(log_error(bot_monitor, err),
                           SubSeq(S2.results, Len(results) + 1, Len(S2.results)))
                    /\ pc' = ToLoop(t)
    /\ UNCHANGED <<deployment, risk_guard, core, lot_size, MARTINGALE_RESET_TIMEOUT, loc>>

\* the pass, and what it found noted for the properties
check_orders_status(t, obs, cancelOk, q) ==
    /\ check_orders_status_pass(t, obs, cancelOk, q)
    /\ last' = IF StatusLabel(obs) = StatusUnknown THEN StatusUnknown
               ELSE IF ExpiryChecked(obs) THEN ExpiryLabel(q)
               ELSE NoCall

\* check_orders_status after the cancel of an expired entry and
\* asyncio.sleep(1) (lines 427-435)
confirm_cancel(t, fetchOk) ==
    /\ pc[t] = "co_cancel"
    /\ LET status == check_order_filled_retry(ex, om.entry_order_id, fetchOk)
       IN  om' = IF status = "canceled" THEN clear_order_info(om) ELSE om
    /\ pc' = ToLoop(t)
    /\ last' = IF fetchOk THEN NoCall ELSE StatusUnknown
    /\ cancel_requests' = <<>>
    /\ bot_monitor' = log_error(bot_monitor,
           check_order_filled_retry(ex, om.entry_order_id, fetchOk) # "canceled")
    /\ UNCHANGED <<deployment, risk_guard, core, lot_size, MARTINGALE_RESET_TIMEOUT, state_file, ex, loc, results>>

(* ------------------------ OrderMonitor (run_bot.py) ------------------- *)
DelAll(d, ks) == SelectSeq(d, LAMBDA p : p[1] \notin ks)

\* OrderManager._next_lot of the revision OrderMonitor is written against
\* (dynamic_lot, consec_losses, base_lot name the sizing fields there)
monitor_next_lot(o) == lot_size * Pow(martingale_factor, o.consecutive_losses)

\* OrderMonitor._check_entry
monitor_check_entry(S, obs) ==
    IF S.om.entry_order_id = None THEN S
    ELSE LET status == check_order_filled_retry(S.ex, S.om.entry_order_id,
                                                obs[S.om.entry_order_id])
         IN  IF status = "closed"
             THEN LET o1 == [S.om EXCEPT !.entry_price = EntryFill,
                                         !.entry_order_id = None]
                  IN  [S EXCEPT !.om = o1, !.file = save_trade_state(o1, S.file)]
             ELSE IF status = "canceled"
             THEN [S EXCEPT !.om.entry_order_id = None]
             ELSE S

PopSibling_mutant(S, sibling, size, cancelOk) == S
\* pop the sibling's entry under the same key and cancel it
PopSibling(S, sibling, size, cancelOk) ==
    IF HasKey(S.om[sibling], size)
    THEN [cancel_orders(S, Get(S.om[sibling], size), cancelOk)
             EXCEPT !.om = [S.om EXCEPT ![sibling] = Del(@, size)]]
    ELSE S

Cleanup_mutant(S, mine, removed) == S
\* the cleanup loop that ends _check_tp and _check_sl
Cleanup(S, mine, removed) ==
    IF removed = {} THEN S
    ELSE [S EXCEPT !.om = [S.om EXCEPT ![mine] = DelAll(@, removed),
                                       !.open_position_side = "NONE"]]

\* OrderMonitor._check_tp
RECURSIVE monitor_check_tp(_, _, _, _, _)
monitor_check_tp(S, items, removed, obs, cancelOk) ==
    IF items = <<>> THEN Cleanup(S, "tp_order_ids", removed)
    ELSE LET size == Head(items)[1]
             oid == Head(items)[2]
             status == check_order_filled_retry(S.ex, oid, obs[oid])
         IN  IF status # "closed"
             THEN monitor_check_tp(S, Tail(items), removed, obs, cancelOk)
             ELSE LET logged == [S EXCEPT !.results =
                                    Append(@, TradeResult(S, oid, "TP", status))]
                      S1 == [logged EXCEPT !.om.consecutive_losses = 0,
                                           !.om.dynamic_lot_size = lot_size]
                      S2 == PopSibling(S1, "sl_order_ids", size, cancelOk)
                      S3 == [S2 EXCEPT !.file = save_trade_state(S2.om, S2.file)]
                  IN  monitor_check_tp(S3, Tail(items), removed \cup {size},
                                       obs, cancelOk)

\* OrderMonitor._check_sl
RECURSIVE monitor_check_sl(_, _, _, _, _)
monitor_check_sl(S, items, removed, obs, cancelOk) ==
    IF items = <<>> THEN Cleanup(S, "sl_order_ids", removed)
    ELSE LET size == Head(items)[1]
             oid == Head(items)[2]
             status == check_order_filled_retry(S.ex, oid, obs[oid])
         IN  IF status # "closed"
             THEN monitor_check_sl(S, Tail(items), removed, obs, cancelOk)
             ELSE LET logged == [S EXCEPT !.results =
                                    Append(@, TradeResult(S, oid, "SL", status))]
                      o1 == [logged.om EXCEPT !.consecutive_losses = @ + 1]
                      o2 == [o1 EXCEPT !.dynamic_lot_size = monitor_next_lot(o1)]
                      S1 == IF o2.consecutive_losses >= MAX_CONSECUTIVE_LOSSES
                            THEN [logged EXCEPT !.om = reset_martingale(o2),
                                                !.file = reset_martingale_file(logged.file)]
                            ELSE [logged EXCEPT !.om = o2,
                                                !.file = save_trade_state(o2, logged.file)]
                      S2 == PopSibling(S1, "tp_order_ids", size, cancelOk)
                  IN  monitor_check_sl(S2, Tail(items), removed \cup {size},
                                       obs, cancelOk)

\* OrderMonitor.run: _check_entry, _check_tp, _check_sl (no await inside)
monitor_run_pass(t, obs, cancelOk) ==
    /\ deployment = "monitor"
    /\ AtCheck(t)
    /\ Asked(obs)
    /\ LET S0 == Cycle(om, state_file, ex, results, <<>>)
           S1 == monitor_check_entry([S0 EXCEPT !.results = Redelivered(@, ex, None)],
                                     obs)
           S2 == monitor_check_tp(S1, S1.om.tp_order_ids, {}, obs, cancelOk)
           S3 == monitor_check_sl(S2, S2.om.sl_order_ids, {}, obs, cancelOk)
       IN  /\ Len(S3.results) <= MaxResults
           /\ S3.cancels = <<>> => cancelOk
           /\ om' = S3.om
           /\ state_file' = S3.file
           /\ ex' = S3.ex
           /\ results' = S3.results
           /\ cancel_requests' = S3.cancels
    /\ pc' = ToLoop(t)
    /\ UNCHANGED <<deployment, bot_monitor, risk_guard, core, lot_size, MARTINGALE_RESET_TIMEOUT, loc>>

\* the pass, and what it found noted for the properties
monitor_run(t, obs, cancelOk) ==
    /\ monitor_run_pass(t, obs, cancelOk)
    /\ last' = StatusLabel(obs)

(* ---------------- core OrderManager (scripts/run_bot.py) --------------- *)
\* _exit_queue holds the payloads, here <<kind, entry the payload was queued for>>
NoPayload == <<"none", None>>
NoCore == [exit_map |-> EmptyDict, exit_queue |-> <<>>, sending |-> NoPayload]
NoPair == [tp_id |-> None, sl_id |-> None]

\* main_loop of scripts/run_bot.py: `while not stop_event.is_set()` is
\* evaluated when place_entry has returned or the bar gave no direction; at
\* "loop" the coroutine has passed it and awaits dh.get_next_bar()
LoopHead(t) ==
    [pc EXCEPT ![t] = IF risk_guard.stop_event THEN "stopped" ELSE "loop"]

\* the awaited bar gives no direction and main_loop finds stop_event set
next_bar(t) ==
    /\ deployment = "core"
    /\ pc[t] = "loop"
    /\ risk_guard.stop_event
    /\ pc' = LoopHead(t)
    /\ last' = NoCall
    /\ cancel_requests' = <<>>
    /\ UNCHANGED <<deployment, bot_monitor, risk_guard, core, lot_size,
                   MARTINGALE_RESET_TIMEOUT, om, state_file, ex, loc, results>>

\* WBARSimpleStrategy.place_entry up to the return of create_market_order
create_market_order(t, resp) ==
    /\ deployment = "core"
    /\ pc[t] = "loop"
    /\ IF resp /\ HasFreeOrder
       THEN /\ ex' = Submit(ex, "entry", NewOid)
            /\ pc' = [pc EXCEPT ![t] = "queue_exit"]
            /\ loc' = [loc EXCEPT ![t].entry_id = NewOid]
       ELSE /\ pc' = LoopHead(t)
            /\ UNCHANGED <<ex, loc>>
    /\ last' = EntryRequest
    /\ cancel_requests' = <<>>
    /\ UNCHANGED <<deployment, bot_monitor, risk_guard, core, lot_size, MARTINGALE_RESET_TIMEOUT, om,
                   state_file, results>>

queue_exit_market_mutant(t) ==
    /\ deployment = "core"
    /\ pc[t] = "queue_exit"
    /\ core' = [core EXCEPT !.exit_queue = Append(@, <<"sl", loc[t].entry_id>>),
                            !.exit_map = Put(@, loc[t].entry_id, NoPair)]
    /\ pc' = LoopHead(t)
    /\ loc' = [loc EXCEPT ![t] = NoLocals]
    /\ last' = NoCall
    /\ cancel_requests' = <<>>
    /\ UNCHANGED <<deployment, bot_monitor, risk_guard, lot_size, MARTINGALE_RESET_TIMEOUT, om,
                   state_file, ex, results>>
\* OrderManager.queue_exit_market, called by place_entry for the accepted entry
queue_exit_market(t) ==
    /\ deployment = "core"
    /\ pc[t] = "queue_exit"
    /\ core' = [core EXCEPT !.exit_queue = @ \o <<<<"tp", loc[t].entry_id>>,
                                                   <<"sl", loc[t].entry_id>>>>,
                            !.exit_map = Put(@, loc[t].entry_id, NoPair)]
    /\ pc' = LoopHead(t)
    /\ loc' = [loc EXCEPT ![t] = NoLocals]
    /\ last' = NoCall
    /\ cancel_requests' = <<>>
    /\ UNCHANGED <<deployment, bot_monitor, risk_guard, lot_size, MARTINGALE_RESET_TIMEOUT, om,
                   state_file, ex, results>>

\* OrderManager._process_exit_queue: the worker takes the next payload
exit_worker_pop ==
    /\ deployment = "core"
    /\ core.sending = NoPayload
    /\ core.exit_queue # <<>>
    /\ core' = [core EXCEPT !.sending = Head(core.exit_queue),
                            !.exit_queue = Tail(@)]
    /\ last' = NoCall
    /\ cancel_requests' = <<>>
    /\ UNCHANGED <<deployment, bot_monitor, risk_guard, lot_size, MARTINGALE_RESET_TIMEOUT, om,
                   state_file, ex, pc, loc, results>>

\* OrderManager._process_exit_queue: the worker posts the payload
exit_worker_send(resp) ==
    /\ deployment = "core"
    /\ core.sending # NoPayload
    /\ ex' = IF resp /\ HasFreeOrder
             THEN SubmitFor(ex, core.sending[1], NewOid, core.sending[2])
             ELSE ex
    /\ core' = [core EXCEPT !.sending = NoPayload]
    /\ last' = NoCall
    /\ cancel_requests' = <<>>
    /\ UNCHANGED <<deployment, bot_monitor, risk_guard, lot_size, MARTINGALE_RESET_TIMEOUT, om,
                   state_file, pc, loc, results>>

\* the order ids that are mapped to an entry
MappedExits ==
    UNION {{p.tp_id, p.sl_id} : p \in Values(core.exit_map)} \ {None}

\* OrderManager.on_exit_order_created: the ids of the two exit orders that the
\* worker sent for an entry are reported once
on_exit_order_created(tp_id, sl_id, entry_order_id) ==
    /\ deployment = "core"
    /\ HasKey(core.exit_map, entry_order_id)
    /\ ex.kind[tp_id] = "tp" /\ ex.kind[sl_id] = "sl"
    /\ ex.trade[tp_id] = ex.trade[entry_order_id]
    /\ ex.trade[sl_id] = ex.trade[entry_order_id]
    /\ {tp_id, sl_id} \cap MappedExits = {}
    /\ core' = [core EXCEPT !.exit_map =
                   Put(@, entry_order_id, [tp_id |-> tp_id, sl_id |-> sl_id])]
    /\ last' = NoCall
    /\ cancel_requests' = <<>>
    /\ UNCHANGED <<deployment, bot_monitor, risk_guard, lot_size, MARTINGALE_RESET_TIMEOUT, om,
                   state_file, ex, pc, loc, results>>

\* the fill that on_fill logs ("OCO: TP filled ...", "OCO: SL filled ...")
FillLog(S, oid, exit_type) ==
    [trade |-> S.ex.trade[oid], oid |-> oid, exit_type |-> exit_type,
     status |-> "closed", lot |-> lot_size, losses |-> 0, run |-> "this",
     again |-> FALSE]

\* the loop of OrderManager.on_fill over list(self._exit_map.items())
RECURSIVE on_fill_pairs(_, _, _, _)
on_fill_pairs(S, items, filled_order_id, cancelOk) ==
    IF items = <<>> THEN S
    ELSE LET entry_id == Head(items)[1]
             tp_id == Head(items)[2].tp_id
             sl_id == Head(items)[2].sl_id
             logged(kind) == [S EXCEPT !.results =
                                 Append(@, FillLog(S, filled_order_id, kind))]
         IN  IF filled_order_id = tp_id /\ sl_id # None
             THEN on_fill_pairs(
                      [cancel_orders(logged("TP"), sl_id, cancelOk)
                          EXCEPT !.om = Del(@, entry_id)],
                      Tail(items), filled_order_id, cancelOk)
             ELSE IF filled_order_id = sl_id /\ tp_id # None
             THEN on_fill_pairs(
                      [cancel_orders(logged("SL"), tp_id, cancelOk)
                          EXCEPT !.om = Del(@, entry_id)],
                      Tail(items), filled_order_id, cancelOk)
             ELSE on_fill_pairs(S, Tail(items), filled_order_id, cancelOk)

\* the step just taken passed the fill of order oid to on_fill
FillNotice(oid) == "on_fill_" \o ToString(oid)

\* WSListener._handler passes a fill notification (state == 3) to
\* OrderManager.on_fill; the exchange may send it more than once
on_fill(filled_order_id, cancelOk) ==
    /\ deployment = "core"
    /\ ex.status[filled_order_id] = "closed"
    /\ LET S0 == Cycle(core.exit_map, state_file, ex,
                       Redelivered(results, ex, filled_order_id), <<>>)
           S1 == on_fill_pairs(S0, core.exit_map, filled_order_id, cancelOk)
       IN  /\ Len(S1.results) <= MaxResults
           /\ core' = [core EXCEPT !.exit_map = S1.om]
           /\ ex' = S1.ex
           /\ results' = S1.results
           /\ cancel_requests' = S1.cancels
    /\ last' = FillNotice(filled_order_id)
    /\ UNCHANGED <<deployment, bot_monitor, risk_guard, lot_size, MARTINGALE_RESET_TIMEOUT, om,
                   state_file, pc, loc>>

\* _ExtendedWS._on_local_fill of scripts/run_bot.py, the callback that the
\* strategy is to call after a fill that on_fill has logged: it passes the
\* pnl of the trade to RiskGuard.on_trade
on_local_fill(pnl, new_day) ==
    /\ deployment = "core"
    /\ risk_guard.told < Len(results)
    /\ pnl < 0 <=> results[risk_guard.told + 1].exit_type = "SL"
    /\ new_day => risk_guard.told > 0
    /\ risk_guard' = [on_trade(risk_guard, pnl, new_day) EXCEPT !.told = @ + 1]
    /\ last' = NoCall
    /\ cancel_requests' = <<>>
    /\ UNCHANGED <<deployment, bot_monitor, core, lot_size,
                   MARTINGALE_RESET_TIMEOUT, om, state_file, ex, pc, loc, results>>

(* ------------------------- the environment ---------------------------- *)
\* main.py has left its loop (lines 76-78) and the process has ended. What
\* the exchange does from here on is what the next start finds and is taken
\* after restart; so is the time that passes, which the start reads only
\* where a reset timeout is set
Exited ==
    /\ deployment = "main"
    /\ pc["main"] = "loop"
    /\ ~is_bot_running
    /\ MARTINGALE_RESET_TIMEOUT = 0
\* the exchange fills an open order
ex_fill(o) ==
    /\ ex.status[o] = "open"
    /\ ~Exited
    /\ \/ ex.kind[o] = "entry"
       \/ ex.pos > 0
       \/ \E p \in OrderIds : /\ ex.kind[p] \in {"tp", "sl"}
                              /\ ex.trade[p] = ex.trade[o]
                              /\ ex.status[p] = "closed"
    /\ ex' = [ex EXCEPT !.status[o] = "closed",
                        !.pos = IF ex.kind[o] = "entry" THEN @ + 1
                                ELSE IF @ > 0 THEN @ - 1 ELSE 0]
    /\ last' = NoCall
    /\ cancel_requests' = <<>>
    /\ UNCHANGED <<deployment, bot_monitor, risk_guard, core, lot_size, MARTINGALE_RESET_TIMEOUT, om, state_file, pc, loc, results>>

\* an open order is canceled on the exchange side; only the polling loops
\* read the status of an order, so only they can tell
ex_cancel(o) ==
    /\ deployment \in {"main", "monitor"}
    /\ ~Exited
    /\ ex.status[o] = "open"
    /\ ex' = [ex EXCEPT !.status[o] = "canceled"]
    /\ last' = NoCall
    /\ cancel_requests' = <<>>
    /\ UNCHANGED <<deployment, bot_monitor, risk_guard, core, lot_size, MARTINGALE_RESET_TIMEOUT, om, state_file, pc, loc, results>>

\* the stop loss attached to the entry order (stopLossPrice, line 193) closes
\* the position
ex_stop_loss ==
    /\ deployment \in {"main", "monitor"}
    /\ ~Exited
    /\ ex.pos > 0
    /\ ex' = [ex EXCEPT !.pos = @ - 1]
    /\ last' = NoCall
    /\ cancel_requests' = <<>>
    /\ UNCHANGED <<deployment, bot_monitor, risk_guard, core, lot_size, MARTINGALE_RESET_TIMEOUT, om, state_file, pc, loc, results>>

\* an SL order is registered under the position size next to the tracked TP
\* order, as test_sl_martingale does
register_sl ==
    /\ deployment \in {"main", "monitor"}
    /\ ~Exited
    /\ pc["main"] = "loop"
    /\ ex.pos > 0
    /\ om.tp_order_ids # EmptyDict
    /\ om.sl_order_ids = EmptyDict
    /\ HasFreeOrder
    /\ om' = [om EXCEPT !.sl_order_ids = Put(@, om.tp_order_ids[1][1], NewOid)]
    /\ ex' = Submit(ex, "sl", NewOid)
    /\ last' = NoCall
    /\ cancel_requests' = <<>>
    /\ UNCHANGED <<deployment, bot_monitor, risk_guard, core, lot_size, MARTINGALE_RESET_TIMEOUT,
                   state_file, pc, loc, results>>

\* TickSec seconds pass
Older(a, timeout) == IF a = -1 \/ a > timeout THEN a ELSE a + TickSec
Sooner(d) == IF d > TickSec THEN d - TickSec ELSE 0
Tick ==
    /\ deployment \in {"main", "monitor"}
    /\ ~Exited
    /\ om' = [om EXCEPT !.order_lock_until = Sooner(@),
                        !.order_timestamp = Older(@, ORDER_TIMEOUT_SEC)]
    /\ state_file' = IF state_file.exists /\ MARTINGALE_RESET_TIMEOUT > 0
                     THEN [state_file EXCEPT !.last_trade_time =
                                                Older(@, MARTINGALE_RESET_TIMEOUT)]
                     ELSE state_file
    /\ last' = NoCall
    /\ cancel_requests' = <<>>
    /\ UNCHANGED <<deployment, bot_monitor, risk_guard, core, lot_size, MARTINGALE_RESET_TIMEOUT,
                   ex, pc, loc, results>>

\* the results that the run that just stopped logged; what runs before it
\* logged is no longer told apart
EarlierRun(r) ==
    LET mine == SelectSeq(r, LAMBDA x : x.run = "this")
    IN  [i \in 1..Len(mine) |-> [mine[i] EXCEPT !.run = "earlier"]]

\* the process stops and starts again: main.check_persistence (keep says that
\* the operator keeps the saved state), then OrderManager.__init__
restart(keep) ==
    /\ deployment \in {"main", "monitor"}
    /\ keep \/ (deployment = "main" /\ state_file.exists)
    /\ LET saved == IF keep THEN state_file ELSE NoFile
       IN  /\ om' = restore_trade_state(FreshManager, saved)
           /\ state_file' = restore_trade_state_file(saved)
    /\ pc' = [t \in Tasks |-> Start(t)]
    /\ loc' = [t \in Tasks |-> NoLocals]
    /\ results' = EarlierRun(results)
    /\ last' = IF ~keep THEN "restart_clean"
               ELSE IF load_failed(state_file) THEN "restart_unread"
               ELSE IF state_file.exists /\ is_state_reset_needed(state_file)
               THEN (IF {"trade_id", "dynamic_lot_size"} \subseteq state_file.keys
                     THEN "restart_stale" ELSE "restart_reset")
               ELSE "restart"
    /\ cancel_requests' = <<>>
    /\ bot_monitor' = IF deployment = "main"
                      THEN log_error(BotMonitor(bot_monitor.max_consecutive_losses),
                                     keep /\ load_failed(state_file))
                      ELSE NoMonitor
    /\ UNCHANGED <<deployment, risk_guard, core, lot_size, MARTINGALE_RESET_TIMEOUT, ex>>

(* --------------------------- specification ---------------------------- *)
\* the trade id of a trade of an earlier run
EarlierTradeId == MaxOrders + 2

\* the state file an earlier run left after one loss
EarlierFile ==
    [NoFile EXCEPT !.exists = TRUE, !.keys = StateKeys,
                   !.trade_id = EarlierTradeId,
                   !.dynamic_lot_size = next_lot(lot_size),
                   !.consecutive_losses = 1,
                   !.open_position_side = "LONG",
                   !.entry_price = EntryFill]

NoExchange ==
    [status |-> [o \in OrderIds |-> "none"], kind |-> [o \in OrderIds |-> "none"],
     trade |-> [o \in OrderIds |-> 0], pos |-> 0]

\* the state files a start finds: none, or the one an earlier run left.  The
\* core OrderManager keeps no file and sizes nothing, so one lot size stands
\* for all; a fractional lot size is followed from its first start
StartFiles ==
    IF deployment = "core" THEN (IF lot_size = LotScale THEN {NoFile} ELSE {})
    ELSE IF lot_size = LotScale THEN {NoFile, EarlierFile}
    ELSE {NoFile}

\* the process has started: OrderManager.__init__ has restored the state file
\* it found (main.py, run_bot.py), or the core OrderManager is empty
\* (scripts/run_bot.py)
Init ==
    /\ deployment \in {"main", "monitor", "core"}
    /\ lot_size \in LotSizes
    /\ MARTINGALE_RESET_TIMEOUT = 0
    /\ \E f \in StartFiles :
          /\ om = restore_trade_state(FreshManager, f)
          /\ state_file = restore_trade_state_file(f)
    /\ ex = NoExchange
    /\ pc = [t \in Tasks |-> Start(t)]
    /\ loc = [t \in Tasks |-> NoLocals]
    /\ results = <<>>
    /\ cancel_requests = <<>>
    /\ last = NoCall
    /\ core = NoCore
    /\ bot_monitor \in IF deployment = "main"
                       THEN {BotMonitor(cap) : cap \in LossCaps} ELSE {NoMonitor}
    /\ risk_guard = NoRiskGuard

\* the steps of the loop of main.py and run_bot.py
TaskStep(t) ==
    \/ \E side \in Sides, posOk, fetchOk, ordOk, resp \in BOOLEAN :
          place_entry_order(t, side, posOk, fetchOk, ordOk, resp)
    \/ \E fetchOk, resp \in BOOLEAN : confirm_entry(t, fetchOk, resp)
    \/ \E resp \in BOOLEAN : place_take_profit_order(t, resp)
    \/ finish_entry(t)
    \/ \E resp \in BOOLEAN : retry_take_profit(t, resp)
    \/ \E obs \in Answers, cancelOk \in BOOLEAN :
          \E q \in IF ExpiryChecked(obs) THEN ExpiryChecks ELSE {Quiet} :
              check_orders_status(t, obs, cancelOk, q)
    \/ \E fetchOk \in BOOLEAN : confirm_cancel(t, fetchOk)
    \/ \E obs \in Answers, cancelOk \in BOOLEAN : monitor_run(t, obs, cancelOk)

\* the threads of scripts/run_bot.py
CoreStep ==
    \/ \E t \in Tasks : next_bar(t)
    \/ \E t \in Tasks, resp \in BOOLEAN : create_market_order(t, resp)
    \/ \E t \in Tasks : queue_exit_market(t)
    \/ exit_worker_pop
    \/ \E resp \in BOOLEAN : exit_worker_send(resp)
    \/ \E tp_id, sl_id, entry_order_id \in OrderIds :
          on_exit_order_created(tp_id, sl_id, entry_order_id)
    \/ \E filled_order_id \in OrderIds, cancelOk \in BOOLEAN :
          on_fill(filled_order_id, cancelOk)
    \/ \E pnl \in Pnls, new_day \in BOOLEAN : on_local_fill(pnl, new_day)

Environment ==
    \/ \E o \in OrderIds : ex_fill(o)
    \/ \E o \in OrderIds : ex_cancel(o)
    \/ ex_stop_loss
    \/ register_sl
    \/ Tick
    \/ \E keep \in BOOLEAN : restart(keep)

Next == TaskStep("main") \/ CoreStep \/ Environment

Spec == Init /\ [][Next]_vars

(* ------------------ specification of the start-up restore ------------- *)
\* the snapshots a start may find in settings.TRADE_STATE_FILE: written by
\* _save_trade_state or reset_martingale, or by a revision that wrote fewer
\* keys; MaxLevel bounds the sizing level they record
MaxLevel == 2
RECURSIVE LotAt(_)
LotAt(level) == IF level = 0 THEN lot_size ELSE next_lot(LotAt(level - 1))

SnapshotKeys ==
    {StateKeys, ResetKeys, StateKeys \ {"trade_id"},
     StateKeys \ {"dynamic_lot_size"}, StateKeys \ {"last_trade_time"}}

SnapshotFiles ==
    {NoFile} \cup
    {[NoFile EXCEPT !.exists = TRUE, !.keys = ks,
                    !.trade_id = IF ks = ResetKeys THEN None ELSE EarlierTradeId,
                    !.dynamic_lot_size = LotAt(level),
                    !.consecutive_losses = level,
                    !.open_position_side = IF ks = ResetKeys THEN "NONE" ELSE "LONG",
                    !.last_trade_time = age,
                    !.tp_order_ids = IF tracked
                                     THEN JsonKeys(<<<<Num(LotAt(level)), 1>>>>)
                                     ELSE EmptyDict] :
        ks \in SnapshotKeys, level \in 0..MaxLevel,
        age \in {0, TickSec, 2 * TickSec}, tracked \in BOOLEAN}

\* the process is about to start and finds one of the snapshots
InitRestore ==
    /\ deployment = "main"
    /\ lot_size \in LotSizes
    /\ MARTINGALE_RESET_TIMEOUT \in ResetTimeouts
    /\ state_file \in SnapshotFiles
    /\ om = FreshManager
    /\ ex = NoExchange
    /\ pc = [t \in Tasks |-> Start(t)]
    /\ loc = [t \in Tasks |-> NoLocals]
    /\ results = <<>>
    /\ cancel_requests = <<>>
    /\ last = NoCall
    /\ core = NoCore
    /\ bot_monitor = BotMonitor(MAX_CONSECUTIVE_LOSSES)
    /\ risk_guard = NoRiskGuard

NextRestore ==
    \/ \E keep \in BOOLEAN : restart(keep)
    \/ Tick

SpecRestore == InitRestore /\ [][NextRestore]_vars

(* ------------- specification with every status query answered -------- *)
\* fetch_order answers every query of a cycle
AllAnswered == [i \in OrderIds |-> i \in Tracked(om)]
\* the step just taken was a pass of check_orders_status or OrderMonitor.run
\* that got every answer
Answered == "answered"

InitAnswered == Init /\ deployment \in {"main", "monitor"}

\* the steps of the loop when the exchange answers the status queries of
\* check_orders_status and OrderMonitor.run
AnsweredStep(t) ==
    \/ \E side \in Sides, posOk, fetchOk, ordOk, resp \in BOOLEAN :
          place_entry_order(t, side, posOk, fetchOk, ordOk, resp)
    \/ \E fetchOk, resp \in BOOLEAN : confirm_entry(t, fetchOk, resp)
    \/ \E resp \in BOOLEAN : place_take_profit_order(t, resp)
    \/ finish_entry(t)
    \/ \E resp \in BOOLEAN : retry_take_profit(t, resp)
    \/ \E cancelOk \in BOOLEAN :
          \E q \in IF ExpiryChecked(AllAnswered) THEN ExpiryChecks ELSE {Quiet} :
              /\ check_orders_status_pass(t, AllAnswered, cancelOk, q)
              /\ last' = Answered
    \/ \E fetchOk \in BOOLEAN : confirm_cancel(t, fetchOk)
    \/ \E cancelOk \in BOOLEAN :
          /\ monitor_run_pass(t, AllAnswered, cancelOk)
          /\ last' = Answered

NextAnswered == AnsweredStep("main") \/ Environment

SpecAnswered == InitAnswered /\ [][NextAnswered]_vars

(* ---------------- specification of a start after a reset -------------- *)
\* the process has started and found the file that reset_martingale of an
\* earlier run wrote
InitAfterReset ==
    /\ deployment \in {"main", "monitor"}
    /\ lot_size = LotScale
    /\ MARTINGALE_RESET_TIMEOUT = 0
    /\ om = restore_trade_state(FreshManager, ResetSnapshot)
    /\ state_file = restore_trade_state_file(ResetSnapshot)
    /\ ex = NoExchange
    /\ pc = [t \in Tasks |-> Start(t)]
    /\ loc = [t \in Tasks |-> NoLocals]
    /\ results = <<>>
    /\ cancel_requests = <<>>
    /\ last = NoCall
    /\ core = NoCore
    /\ bot_monitor \in IF deployment = "main"
                       THEN {BotMonitor(cap) : cap \in LossCaps} ELSE {NoMonitor}
    /\ risk_guard = NoRiskGuard

NextAfterReset == TaskStep("main") \/ Environment

SpecAfterReset == InitAfterReset /\ [][NextAfterReset]_vars

(* ------------------ specification of _save_trade_state ---------------- *)
\* the manager while a trade is open at the given level
ManagerAt(level, tracked) ==
    [FreshManager EXCEPT !.current_trade_id = EarlierTradeId,
                         !.open_position_side = "LONG",
                         !.dynamic_lot_size = LotAt(level),
                         !.consecutive_losses = level,
                         !.entry_price = EntryFill,
                         !.tp_order_ids = IF tracked
                                          THEN <<<<Num(LotAt(level)), 1>>>>
                                          ELSE EmptyDict]

\* a call of _save_trade_state is about to start: the manager is at some
\* level, and the file holds the snapshot of the save before (the same level,
\* or the level before the loss) or does not exist yet
InitSave ==
    /\ deployment = "main"
    /\ lot_size \in LotSizes
    /\ MARTINGALE_RESET_TIMEOUT \in ResetTimeouts
    /\ \E level \in 0..MaxLevel, before \in 0..MaxLevel, tracked, first \in BOOLEAN :
          /\ before \in {level, level - 1}
          /\ first => level = 0
          /\ om = ManagerAt(level, tracked)
          /\ state_file = IF first THEN NoFile ELSE Snapshot(ManagerAt(before, FALSE))
    /\ ex = NoExchange
    /\ pc = [t \in Tasks |-> IF t = "main" THEN "save" ELSE Start(t)]
    /\ loc = [t \in Tasks |-> NoLocals]
    /\ results = <<>>
    /\ cancel_requests = <<>>
    /\ last = NoCall
    /\ core = NoCore
    /\ bot_monitor = BotMonitor(MAX_CONSECUTIVE_LOSSES)
    /\ risk_guard = NoRiskGuard

\* _save_trade_state, open(settings.TRADE_STATE_FILE, 'w') (line 779): the
\* file is created or truncated
save_open(t) ==
    /\ pc[t] = "save"
    /\ state_file' = IF PERSISTENCE_ENABLED THEN Truncated ELSE state_file
    /\ pc' = [pc EXCEPT ![t] = "save_dump"]
    /\ last' = NoCall
    /\ UNCHANGED <<deployment, om, ex, bot_monitor, risk_guard, core, lot_size,
                   MARTINGALE_RESET_TIMEOUT, loc, results, cancel_requests>>

\* _save_trade_state, json.dump and the close of the file (line 780)
save_dump(t) ==
    /\ pc[t] = "save_dump"
    /\ state_file' = save_trade_state(om, state_file)
    /\ pc' = [pc EXCEPT ![t] = After(t)]
    /\ last' = NoCall
    /\ UNCHANGED <<deployment, om, ex, bot_monitor, risk_guard, core, lot_size,
                   MARTINGALE_RESET_TIMEOUT, loc, results, cancel_requests>>

\* the process may stop at any point of the save and start again
NextSave ==
    \/ save_open("main")
    \/ save_dump("main")
    \/ \E keep \in BOOLEAN : restart(keep)
    \/ Tick

SpecSave == InitSave /\ [][NextSave]_vars

(* ------- the threads of scripts/run_bot.py around _exit_map ----------- *)
\* The main loop thread is task "main" and the WSListener thread is task
\* "aux". `with self._queue_lock` is entered at "queue_locked"; on_fill and
\* on_exit_order_created take no lock, and on_fill awaits the answer to its
\* cancel request between reading a pair and deleting it.
Locked == \E t \in Tasks : pc[t] = "queue_locked"
FillRemoved == "on_fill_del"

InitThreads ==
    /\ deployment = "core"
    /\ lot_size = LotScale
    /\ MARTINGALE_RESET_TIMEOUT = 0
    /\ om = restore_trade_state(FreshManager, NoFile)
    /\ state_file = restore_trade_state_file(NoFile)
    /\ ex = NoExchange
    /\ pc = [t \in Tasks |-> IF t = "main" THEN "loop" ELSE "ws_recv"]
    /\ loc = [t \in Tasks |-> NoLocals]
    /\ results = <<>>
    /\ cancel_requests = <<>>
    /\ last = NoCall
    /\ core = NoCore
    /\ bot_monitor = NoMonitor
    /\ risk_guard = NoRiskGuard

\* OrderManager.queue_exit_market: `with self._queue_lock` is entered
queue_lock_acquire(t) ==
    /\ deployment = "core"
    /\ pc[t] = "queue_exit"
    /\ ~Locked
    /\ pc' = [pc EXCEPT ![t] = "queue_locked"]
    /\ last' = NoCall
    /\ cancel_requests' = <<>>
    /\ UNCHANGED <<deployment, bot_monitor, risk_guard, core, lot_size,
                   MARTINGALE_RESET_TIMEOUT, om, state_file, ex, loc, results>>

\* OrderManager.queue_exit_market: the block under the lock, and its release
queue_exit_market_locked(t) ==
    /\ deployment = "core"
    /\ pc[t] = "queue_locked"
    /\ core' = [core EXCEPT !.exit_queue = @ \o <<<<"tp", loc[t].entry_id>>,
                                                   <<"sl", loc[t].entry_id>>>>,
                            !.exit_map = Put(@, loc[t].entry_id, NoPair)]
    /\ pc' = LoopHead(t)
    /\ loc' = [loc EXCEPT ![t] = NoLocals]
    /\ last' = NoCall
    /\ cancel_requests' = <<>>
    /\ UNCHANGED <<deployment, bot_monitor, risk_guard, lot_size, MARTINGALE_RESET_TIMEOUT, om,
                   state_file, ex, results>>

\* OrderManager._process_exit_queue: the pop happens under the lock
exit_worker_pop_locked == ~Locked /\ exit_worker_pop

\* OrderManager.on_exit_order_created, first statement:
\* self._exit_map[entry_order_id]["tp_id"] = tp_id
on_exit_order_created_tp(tp_id, sl_id, entry_order_id) ==
    /\ deployment = "core"
    /\ HasKey(core.exit_map, entry_order_id)
    /\ ex.kind[tp_id] = "tp" /\ ex.kind[sl_id] = "sl"
    /\ ex.trade[tp_id] = ex.trade[entry_order_id]
    /\ ex.trade[sl_id] = ex.trade[entry_order_id]
    /\ {tp_id, sl_id} \cap MappedExits = {}
    /\ core' = [core EXCEPT !.exit_map =
                   Put(@, entry_order_id,
                       [Get(core.exit_map, entry_order_id) EXCEPT !.tp_id = tp_id])]
    /\ last' = NoCall
    /\ cancel_requests' = <<>>
    /\ UNCHANGED <<deployment, bot_monitor, risk_guard, lot_size, MARTINGALE_RESET_TIMEOUT, om,
                   state_file, ex, pc, loc, results>>

\* OrderManager.on_exit_order_created, second statement:
\* self._exit_map[entry_order_id]["sl_id"] = sl_id
on_exit_order_created_sl(sl_id, entry_order_id) ==
    /\ deployment = "core"
    /\ HasKey(core.exit_map, entry_order_id)
    /\ Get(core.exit_map, entry_order_id).tp_id # None
    /\ Get(core.exit_map, entry_order_id).sl_id = None
    /\ ex.kind[sl_id] = "sl"
    /\ ex.trade[sl_id] = ex.trade[entry_order_id]
    /\ core' = [core EXCEPT !.exit_map =
                   Put(@, entry_order_id,
                       [Get(core.exit_map, entry_order_id) EXCEPT !.sl_id = sl_id])]
    /\ last' = NoCall
    /\ cancel_requests' = <<>>
    /\ UNCHANGED <<deployment, bot_monitor, risk_guard, lot_size, MARTINGALE_RESET_TIMEOUT, om,
                   state_file, ex, pc, loc, results>>

\* the entries whose pair on_fill's loop matches with the filled order
FillMatches(filled_order_id) ==
    {k \in Keys(core.exit_map) :
        LET p == Get(core.exit_map, k)
        IN  \/ filled_order_id = p.tp_id /\ p.sl_id # None
            \/ filled_order_id = p.sl_id /\ p.tp_id # None}

\* OrderManager.on_fill in the WSListener thread, up to the request of
\* cancel_order for the other leg
on_fill_cancel(filled_order_id, cancelOk) ==
    /\ deployment = "core"
    /\ pc["aux"] = "ws_recv"
    /\ ex.status[filled_order_id] = "closed"
    /\ IF FillMatches(filled_order_id) = {}
       THEN /\ cancel_requests' = <<>>
            /\ UNCHANGED <<ex, pc, loc, results>>
       ELSE LET entry_id == CHOOSE k \in FillMatches(filled_order_id) : TRUE
                p == Get(core.exit_map, entry_id)
                S0 == Cycle(core.exit_map, state_file, ex,
                            Redelivered(results, ex, filled_order_id), <<>>)
                tp == filled_order_id = p.tp_id
                other == IF tp THEN p.sl_id ELSE p.tp_id
            IN  /\ Len(results) < MaxResults
                /\ results' = Append(S0.results,
                                     FillLog(S0, filled_order_id,
                                             IF tp THEN "TP" ELSE "SL"))
                /\ ex' = CancelAt(ex, other, cancelOk)
                /\ cancel_requests' = <<other>>
                /\ pc' = [pc EXCEPT !["aux"] = "ws_del"]
                /\ loc' = [loc EXCEPT !["aux"].entry_id = entry_id]
    /\ last' = FillNotice(filled_order_id)
    /\ UNCHANGED <<deployment, bot_monitor, risk_guard, core, lot_size,
                   MARTINGALE_RESET_TIMEOUT, om, state_file>>

\* OrderManager.on_fill: cancel_order has returned,
\* `del self._exit_map[entry_id]`
on_fill_del ==
    /\ deployment = "core"
    /\ pc["aux"] = "ws_del"
    /\ core' = [core EXCEPT !.exit_map = Del(@, loc["aux"].entry_id)]
    /\ pc' = [pc EXCEPT !["aux"] = "ws_recv"]
    /\ loc' = [loc EXCEPT !["aux"] = NoLocals]
    /\ last' = FillRemoved
    /\ cancel_requests' = <<>>
    /\ UNCHANGED <<deployment, bot_monitor, risk_guard, lot_size, MARTINGALE_RESET_TIMEOUT, om,
                   state_file, ex, results>>

NextThreads ==
    \/ \E resp \in BOOLEAN : create_market_order("main", resp)
    \/ queue_lock_acquire("main")
    \/ queue_exit_market_locked("main")
    \/ exit_worker_pop_locked
    \/ \E resp \in BOOLEAN : exit_worker_send(resp)
    \/ \E tp_id, sl_id, entry_order_id \in OrderIds :
          on_exit_order_created_tp(tp_id, sl_id, entry_order_id)
    \/ \E sl_id, entry_order_id \in OrderIds :
          on_exit_order_created_sl(sl_id, entry_order_id)
    \/ \E filled_order_id \in OrderIds, cancelOk \in BOOLEAN :
          on_fill_cancel(filled_order_id, cancelOk)
    \/ on_fill_del
    \/ \E o \in OrderIds : ex_fill(o)

SpecThreads == InitThreads /\ [][NextThreads]_vars

(* ------------- RiskGuard.on_trade over the results of a day ----------- *)
\* results holds the pnl of every trade that was passed to on_trade since
\* the last change of day, oldest first
MaxTrades == 4
ToldTrade == "on_trade"

InitGuard ==
    /\ Init
    /\ deployment = "core"

\* RiskGuard.on_trade is called with the pnl of a trade
guard_on_trade(pnl, new_day) ==
    /\ deployment = "core"
    /\ Len(results) < MaxTrades \/ new_day
    /\ new_day => results # <<>>
    /\ risk_guard' = on_trade(risk_guard, pnl, new_day)
    /\ results' = Append(IF new_day THEN <<>> ELSE results, pnl)
    /\ last' = ToldTrade
    /\ cancel_requests' = <<>>
    /\ UNCHANGED <<deployment, bot_monitor, core, lot_size,
                   MARTINGALE_RESET_TIMEOUT, om, state_file, ex, pc, loc>>

NextGuard == \E pnl \in Pnls, new_day \in BOOLEAN : guard_on_trade(pnl, new_day)

SpecGuard == InitGuard /\ [][NextGuard]_vars

(* ------------- place_take_profit_order, from call to return ----------- *)
\* the exchange of a Trade whose entry order 1 is filled and, where a TP
\* order is tracked, whose TP order 2 is open
FilledEntry(tracked) ==
    [NoExchange EXCEPT !.kind[1] = "entry", !.status[1] = "closed",
                       !.trade[1] = 1, !.pos = 1,
                       !.kind[2] = IF tracked THEN "tp" ELSE "none",
                       !.status[2] = IF tracked THEN "open" ELSE "none",
                       !.trade[2] = IF tracked THEN 1 ELSE 0]

\* the manager of a Trade at a level: no TP order tracked ("none"), a TP
\* order recorded by this process ("placed", the key is the size) or one
\* restored from the state file ("restored", json.load gives the key as text)
ManagerWithTp(level, tp) ==
    [ManagerAt(level, FALSE) EXCEPT
        !.tp_order_ids = IF tp = "none" THEN EmptyDict
                         ELSE IF tp = "placed" THEN <<<<Num(LotAt(level)), 2>>>>
                         ELSE JsonKeys(<<<<Num(LotAt(level)), 2>>>>)]

\* place_take_profit_order(self.dynamic_lot_size, filled_price) is about to
\* be called
InitTp ==
    /\ deployment \in {"main", "monitor"}
    /\ lot_size \in LotSizes
    /\ MARTINGALE_RESET_TIMEOUT = 0
    /\ \E level \in 0..MaxLevel, tp \in {"none", "placed", "restored"} :
          /\ om = ManagerWithTp(level, tp)
          /\ state_file = Snapshot(om)
          /\ ex = FilledEntry(tp # "none")
          /\ loc = [t \in Tasks |->
                       IF t = "main"
                       THEN [NoLocals EXCEPT !.size = LotAt(level), !.price = EntryFill]
                       ELSE NoLocals]
    /\ pc = [t \in Tasks |-> IF t = "main" THEN "tp_call" ELSE "idle"]
    /\ results = <<>>
    /\ cancel_requests = <<>>
    /\ last = NoCall
    /\ core = NoCore
    /\ bot_monitor \in IF deployment = "main"
                       THEN {BotMonitor(cap) : cap \in LossCaps} ELSE {NoMonitor}
    /\ risk_guard = NoRiskGuard

\* place_take_profit_order up to its first await or its return (lines
\* 275-355): the check for a tracked order and the first submission
take_profit_call(t, resp) ==
    /\ pc[t] = "tp_call"
    /\ IF HasKey(om.tp_order_ids, Num(loc[t].size))
       THEN /\ pc' = [pc EXCEPT ![t] = "tp_true"]
            /\ UNCHANGED <<om, ex, loc>>
       ELSE IF resp /\ HasFreeOrder
       THEN /\ om' = tp_order_placed(om, loc[t].size, NewOid)
            /\ ex' = Submit(ex, "tp", NewOid)
            /\ pc' = [pc EXCEPT ![t] = "tp_true"]
            /\ UNCHANGED loc
       ELSE /\ pc' = [pc EXCEPT ![t] = "tp_sleep"]
            /\ loc' = [loc EXCEPT ![t].attempt = 1]
            /\ UNCHANGED <<om, ex>>
    /\ last' = NoCall
    /\ cancel_requests' = <<>>
    /\ UNCHANGED <<deployment, bot_monitor, risk_guard, core, lot_size,
                   MARTINGALE_RESET_TIMEOUT, state_file, results>>

\* place_take_profit_order after the asyncio.sleep(1) that follows a rejected
\* submission (lines 328-362)
take_profit_attempt(t, resp) ==
    /\ pc[t] = "tp_sleep"
    /\ IF loc[t].attempt < max_attempts /\ resp /\ HasFreeOrder
       THEN /\ om' = tp_order_placed(om, loc[t].size, NewOid)
            /\ ex' = Submit(ex, "tp", NewOid)
            /\ pc' = [pc EXCEPT ![t] = "tp_true"]
            /\ UNCHANGED loc
       ELSE IF loc[t].attempt < max_attempts
       THEN /\ loc' = [loc EXCEPT ![t].attempt = @ + 1]
            /\ UNCHANGED <<om, ex, pc>>
       ELSE /\ pc' = [pc EXCEPT ![t] = "tp_false"]
            /\ UNCHANGED <<om, ex, loc>>
    /\ bot_monitor' = log_error(bot_monitor, loc[t].attempt >= max_attempts)
    /\ last' = NoCall
    /\ cancel_requests' = <<>>
    /\ UNCHANGED <<deployment, risk_guard, core, lot_size,
                   MARTINGALE_RESET_TIMEOUT, state_file, results>>

NextTp ==
    \/ \E resp \in BOOLEAN : take_profit_call("main", resp)
    \/ \E resp \in BOOLEAN : take_profit_attempt("main", resp)

SpecTp == InitTp /\ [][NextTp]_vars

(* ------------------------------ properties ---------------------------- *)
ThisRun(r) == {i \in 1..Len(r) : r[i].run = "this"}
SizingUnchanged ==
    /\ om'.dynamic_lot_size = om.dynamic_lot_size
    /\ om'.consecutive_losses = om.consecutive_losses
\* the step appends exactly one result, of the given exit type and status
Emits(exit_type, status) ==
    /\ Len(results') = Len(results) + 1
    /\ results'[Len(results')].exit_type = exit_type
    /\ results'[Len(results')].status = status

\* C1: a TP fill that is delivered again (the exchange still reports the order
\* filled to a later poll, or notifies on_fill a second time) is recorded once:
\* no order id has two results in one run, and a step that only sees fills
\* again that were handled before emits no result and leaves the sizing level
\* and the lot size as they were.
C1_IdempotentFill ==
    [][/\ \A i, j \in ThisRun(results') :
              results'[i].oid = results'[j].oid => i = j
       /\ (/\ Len(results') = Len(results)
           /\ \E i \in 1..Len(results) :
                 /\ results[i].exit_type = "TP"
                 /\ ~results[i].again /\ results'[i].again)
          => SizingUnchanged]_vars

C1_Witness ==
    \E i \in ThisRun(results) :
        /\ results[i].exit_type = "TP" /\ results[i].status = "closed"
        /\ results[i].again
        /\ \A j \in ThisRun(results) : results[j].oid = results[i].oid => j = i

\* C2: the reconciliation records at most one outcome for a trade: no trade
\* has two results in one run, whether a TP and an SL result or two of one
\* kind, also when the exchange reports both legs filled.
C2_OneOutcomePerTrade ==
    \A i, j \in ThisRun(results) :
        results[i].trade = results[j].trade => i = j

C2_Witness ==
    \E p, q \in OrderIds :
        /\ ex.kind[p] = "tp" /\ ex.kind[q] = "sl"
        /\ ex.trade[p] = ex.trade[q]
        /\ ex.status[p] = "closed" /\ ex.status[q] = "closed"
        /\ \E i \in ThisRun(results) :
              /\ results[i].trade = ex.trade[p]
              /\ results[i].again

\* a place_entry call of task t has submitted its entry order and has not
\* returned yet
EntryInProgress(t) == pc[t] \in {"pe_confirm", "pe_tp", "pe_final", "queue_exit"}

\* C3: two place_entry calls that run concurrently never both submit an entry
\* order: while one call that has submitted is still running, no other call
\* has submitted.
C3_EntryMutualExclusion ==
    \A t, u \in Tasks : (EntryInProgress(t) /\ EntryInProgress(u)) => t = u

\* C4: an entry order is submitted only when the previous trade is fully
\* closed: in a step that submits an entry order there is no position and no
\* outstanding order.
C4_OneOpenTrade ==
    [][Entries' # Entries => (ex.pos = 0 /\ OpenOrders = {})]_vars

C6_LossStep ==
    [][Emits("SL", "closed")
          => /\ om'.consecutive_losses = om.consecutive_losses + 1
             /\ om'.dynamic_lot_size = om.dynamic_lot_size * martingale_factor]_vars

\* C7: in every reachable state the size of the next entry order is
\* base size * multiplier ^ sizing level.
C7_SizingInvariant ==
    om.dynamic_lot_size = lot_size * Pow(martingale_factor, om.consecutive_losses)

\* the snapshot has the fields the restore requires
Complete(saved) == {"trade_id", "dynamic_lot_size"} \subseteq saved.keys
\* the snapshot's last_trade_time is older than the reset timeout
Stale(saved) ==
    /\ MARTINGALE_RESET_TIMEOUT > 0
    /\ "last_trade_time" \in saved.keys
    /\ saved.last_trade_time > MARTINGALE_RESET_TIMEOUT
\* the step is a start of the process that reads the state file
Starts == last' \in {"restart", "restart_stale", "restart_reset"}

\* C8: a start that finds a snapshot that is older than the reset timeout
\* (timeout > 0) or lacks the trade id or the lot size leaves the manager as a
\* fresh process has it (level 0, base lot size, no tracked orders); with
\* timeout = 0 a complete snapshot is restored: level, lot size and tracked
\* orders are the snapshot's.
C8_RestartSafety ==
    [][Starts /\ state_file.exists
          => /\ (Stale(state_file) \/ ~Complete(state_file)) => om' = FreshManager
             /\ (MARTINGALE_RESET_TIMEOUT = 0 /\ Complete(state_file))
                   => /\ om'.dynamic_lot_size = state_file.dynamic_lot_size
                      /\ om'.consecutive_losses
                            = StateGet(state_file, "consecutive_losses", 0)
                      /\ om'.tp_order_ids
                            = StateGet(state_file, "tp_order_ids", EmptyDict)]_vars

C8_Witness ==
    /\ last = "restart_stale"
    /\ MARTINGALE_RESET_TIMEOUT > 0
    /\ om = FreshManager
    /\ state_file.keys = ResetKeys

\* the query that a refused place_entry_order call saw fail
FailedQueries == {"fetch_positions", "fetch_open_orders"}

\* C9: when the positions query or the open-orders query fails,
\* has_open_position_or_order answers true, and the place_entry_order call
\* that saw the failure submits no order and changes nothing in the manager.
C9_FailClosed ==
    [][/\ \A fetchOk, ordOk \in BOOLEAN :
              /\ has_open_position_or_order(FALSE, fetchOk, ordOk)
              /\ has_open_position_or_order(TRUE, fetchOk, FALSE)
       /\ last' \in FailedQueries => (ex' = ex /\ om' = om)]_vars

C9_Witness ==
    /\ last = "fetch_open_orders"
    /\ om.order_lock_until = 0
    /\ Entries = {}

\* one of the three conditions of the entry check holds: the lock window is
\* active, the exchange shows a position or an open order, or a TP or SL
\* order is tracked
LockActive == om.order_lock_until > 0
LiveOpen == ex.pos > 0 \/ OpenOrders # {}
LocalExits == om.tp_order_ids # EmptyDict \/ om.sl_order_ids # EmptyDict

\* C10: with the exchange answering, has_open_position_or_order is true in
\* every state where the lock window is active, the exchange shows a position
\* or an open order, or the TP or SL map is non-empty, and false in every
\* state where none of the three holds.
C10_PositionOpen ==
    \A fetchOk \in BOOLEAN :
        has_open_position_or_order(TRUE, fetchOk, TRUE)
            <=> (LockActive \/ LiveOpen \/ LocalExits)

C10_Witness ==
    /\ LocalExits /\ ~LockActive /\ ~LiveOpen
    /\ deployment = "main"
    /\ pc["main"] = "loop"

\* the stop signal of the deployment: BotMonitor.monitoring_active is off
\* (main.py), stop_event is set (scripts/run_bot.py); run_bot.py has none
StopRaised ==
    \/ deployment = "main" /\ ~bot_monitor.monitoring_active
    \/ deployment = "core" /\ risk_guard.stop_event
\* the recorded results have reached the loss cap or the daily loss threshold
Breached ==
    \/ /\ deployment = "main"
       /\ bot_monitor.consecutive_losses >= bot_monitor.max_consecutive_losses
    \/ /\ deployment = "core"
       /\ \/ risk_guard.daily_pnl * 100 <= MAX_DAILY_LOSS_PCT * Balance
          \/ Cardinality({i \in 1..Len(risk_guard.consec_losses) :
                             risk_guard.consec_losses[i] < 0}) >= MAX_CONSECUTIVE_LOSS

\* C11: the step that records the trade result which reaches the loss cap or
\* the daily loss threshold raises the stop signal, and while the stop signal
\* is raised no step sends a request for an entry order to the exchange,
\* whatever the interleaving of the recording thread and the entry-placing
\* loop (a restart of the process is the reset).
C11_RiskHalt ==
    [][/\ Breached' => StopRaised'
       /\ StopRaised => (last' # EntryRequest /\ Entries' \subseteq Entries)]_vars

\* the step records the loss with which the losses reach the cap of the
\* deployment: BotMonitor's max_consecutive_losses (main.py), OrderMonitor's
\* settings.MAX_CONSECUTIVE_LOSSES (run_bot.py), RiskGuard's limits
\* (scripts/run_bot.py)
CapReached ==
    \/ deployment = "main" /\ Breached' /\ ~Breached
    \/ /\ deployment = "monitor"
       /\ Emits("SL", "closed")
       /\ om.consecutive_losses + 1 >= MAX_CONSECUTIVE_LOSSES
    \/ deployment = "core" /\ Breached' /\ ~Breached

CancelCount(c, oid) == Cardinality({i \in 1..Len(c) : c[i] = oid})
\* the TP orders that are tracked as the sibling of SL order oid: under the
\* same key of the TP and SL maps, or in the same pair of _exit_map
SiblingTps(oid) ==
    IF deployment = "core"
    THEN {p.tp_id : p \in {q \in Values(core.exit_map) : q.sl_id = oid}} \ {None}
    ELSE {Get(om.tp_order_ids, k) :
             k \in {j \in Keys(om.sl_order_ids) :
                       Get(om.sl_order_ids, j) = oid /\ HasKey(om.tp_order_ids, j)}}

OtherLegs(oid) ==
    {o \in OrderIds : /\ ex.trade[o] = ex.trade[oid]
                      /\ ex.kind[o] \in {"tp", "sl"} \ {ex.kind[oid]}}
\* the entry under which queue_exit_market registered the pair of order oid
PairOf(oid) ==
    {e \in Keys(core.exit_map) : ex.kind[e] = "entry" /\ ex.trade[e] = ex.trade[oid]}

\* C14: when on_fill is told of the fill of an exit leg whose pair is still
\* in _exit_map and whose other leg was sent, the step passes the other leg
\* to cancel_order and removes the pair from _exit_map.
C14_FillCancelsOtherLeg ==
    [][\A oid \in OrderIds :
          (/\ deployment = "core"
           /\ last' = FillNotice(oid)
           /\ ex.kind[oid] \in {"tp", "sl"}
           /\ PairOf(oid) # {}
           /\ OtherLegs(oid) # {})
          => /\ \A o \in OtherLegs(oid) : CancelCount(cancel_requests', o) = 1
             /\ \A e \in PairOf(oid) : ~HasKey(core'.exit_map, e)]_vars

\* the orders the deployment tracks: in the maps of OrderManager, or as a
\* mapped leg of a pair of _exit_map
TrackedOrders(o, c) ==
    IF deployment = "core"
    THEN UNION {{p.tp_id, p.sl_id} : p \in Values(c.exit_map)} \ {None}
    ELSE Tracked(o)

\* C15: an order that the step just taken asked the exchange to cancel and
\* that is still open afterwards (the cancel failed) is still tracked after
\* the step, so that a later pass can cancel it again.
C15_FailedCancelStaysTracked ==
    [][\A i \in 1..Len(cancel_requests') :
          ex'.status[cancel_requests'[i]] = "open"
              => cancel_requests'[i] \in TrackedOrders(om', core')]_vars

EntryCancelIssued ==
    /\ om.entry_order_id # None
    /\ CancelCount(cancel_requests', om.entry_order_id) > 0

\* C17: no step issues a cancel request for the entry order before
\* order_timeout_sec has passed since the order was placed, and a cycle that
\* finds the entry order outstanding past its timeout issues the cancel
\* request if and only if the order is not partially filled and the market
\* price is not in the continuation zone.
C17_EntryTimeout ==
    [][/\ EntryCancelIssued => timeout_elapsed(om)
       /\ last' \in {ExpiryLabel(q) : q \in ExpiryChecks} =>
             (EntryCancelIssued <=> last' = ExpiryLabel(Quiet))]_vars

\* the step just taken was the re-check that follows the cancel request for
\* an expired entry (check_orders_status, lines 427-436)
Recheck ==
    /\ deployment = "main"
    /\ pc["main"] = "co_cancel"
    /\ pc'["main"] = "loop"
    /\ last' \in {NoCall, StatusUnknown}

\* C18: the re-check that follows the cancel request for an expired entry
\* clears the Trade only if it reports the order canceled; if the order has
\* filled in the meantime it keeps the entry order tracked and does not stop
\* the loop whose later cycle is to process the fill.
C18_CancelRace ==
    [][Recheck =>
          /\ om'.entry_order_id = None =>
                (last' = NoCall /\ ex.status[om.entry_order_id] = "canceled")
          /\ ex.status[om.entry_order_id] = "closed" =>
                /\ om'.entry_order_id = om.entry_order_id
                /\ is_bot_running => is_bot_running']_vars

\* the step just taken was a poll that found the recorded entry order filled
\* (check_orders_status lines 392-416, OrderMonitor._check_entry)
EntryFillPolled ==
    /\ deployment \in {"main", "monitor"}
    /\ om.entry_order_id # None
    /\ ex.status[om.entry_order_id] = "closed"
    /\ om'.entry_order_id = None
    /\ om'.entry_price = EntryFill
    /\ last' = NoCall
\* the step just taken ended a place_entry_order call whose confirmation
\* found the entry order filled (lines 228-263)
EntryFillConfirmed ==
    /\ \E t \in Tasks : pc[t] = "pe_final" /\ pc'[t] # "pe_final"
    /\ last' = NoCall
\* a TP order is tracked or its retry is pending
ExitCovered == om.tp_order_ids # EmptyDict \/ om.tp_order_retry_needed

\* C19: the step in which a poll finds the outstanding entry order filled, and
\* the step that ends a place_entry_order call whose confirmation found it
\* filled, leave a TP order tracked or a retry of its placement pending.
C19_FillPlacesExit ==
    [][(EntryFillPolled \/ EntryFillConfirmed) => ExitCovered']_vars

\* the step just taken ended place_take_profit_order with every bounded
\* attempt rejected (lines 357-362)
Exhausted(t) ==
    /\ pc[t] \in {"pe_tp", "co_tp"}
    /\ pc'[t] \notin {"pe_tp", "co_tp"}
    /\ om'.tp_order_ids = om.tp_order_ids
    /\ last' = NoCall
\* the step just taken was a send of the exit worker that the exchange
\* rejected (core _process_exit_queue, lines 240-249)
WorkerFailed ==
    /\ deployment = "core"
    /\ core.sending # NoPayload
    /\ core'.sending = NoPayload
    /\ ex' = ex
\* the payload the worker failed to send is queued again
Requeued ==
    \E i \in 1..Len(core'.exit_queue) : core'.exit_queue[i] = core.sending

\* C20: the step in which the submission of an exit order has failed on all
\* bounded attempts leaves the retry pending (the Trade marked as needing the
\* retry, the payload of the exit worker queued again) and does not stop the
\* loop whose later passes are to retry it.
C20_ExitRetried ==
    [][/\ \A t \in Tasks :
             Exhausted(t) => /\ retry_needed(om')
                             /\ is_bot_running => is_bot_running'
       /\ WorkerFailed => Requeued]_vars

\* the step just taken sent the request for an entry order of place_entry_order
\* and the exchange did not accept it (lines 196-197, 264-266)
RejectedEntry ==
    /\ deployment \in {"main", "monitor"}
    /\ last' = EntryRequest
    /\ ex' = ex

\* C21: the step in which the exchange rejects the entry submission of
\* place_entry_order leaves the trade id, the side, the entry order id, the
\* order timestamp, the lock window and the saved snapshot as they were, and
\* leaves the entry check of the next call as it was.
C21_RejectedEntryNoTrade ==
    [][RejectedEntry =>
          /\ om'.current_trade_id = om.current_trade_id
          /\ om'.open_position_side = om.open_position_side
          /\ om'.entry_order_id = om.entry_order_id
          /\ om'.order_timestamp = om.order_timestamp
          /\ om'.order_lock_until = om.order_lock_until
          /\ state_file' = state_file
          /\ has_open_position_or_order(TRUE, TRUE, TRUE)'
                = has_open_position_or_order(TRUE, TRUE, TRUE)]_vars

\* the step just taken sent the request for an entry order of place_entry_order
\* and the exchange accepted it (lines 196-209)
AcceptedEntry ==
    /\ deployment \in {"main", "monitor"}
    /\ last' = EntryRequest
    /\ Entries' # Entries

\* C22: the step of place_entry_order in which the exchange accepts the entry
\* submission, which ends at the first await, leaves the id of the accepted
\* order recorded as the entry order id, the order timestamp set to the time
\* of the submission and the saved snapshot equal to the snapshot of the
\* manager.
C22_AcceptedEntryRecorded ==
    [][AcceptedEntry =>
          /\ Entries' \ Entries = {om'.entry_order_id}
          /\ om'.order_timestamp = 0
          /\ state_file' = Snapshot(om)']_vars

C22_Witness ==
    /\ last = EntryRequest
    /\ deployment \in {"main", "monitor"}
    /\ pc["main"] = "pe_confirm"
    /\ om.entry_order_id # None
    /\ ex.kind[om.entry_order_id] = "entry"
    /\ state_file = Snapshot(om)

\* what a call of OrderManager.place_entry_order hands back: every path ends
\* in a bare return or runs off the end of the function (lines 138, 226, 268),
\* so the caller gets None whatever path the call took
NoReturn == [trade_id |-> None, reason |-> "none"]
place_entry_order_return(path) == NoReturn

\* the step just taken ended a place_entry_order call whose entry order the
\* exchange had accepted (lines 223-226, 263-268)
AcceptedEnd ==
    /\ deployment \in {"main", "monitor"}
    /\ \E t \in Tasks : pc[t] \in {"pe_confirm", "pe_final"} /\ pc'[t] = After(t)
    /\ last' \in {NoCall, StatusUnknown}
\* the step just taken was a place_entry_order call that a failed query of
\* has_open_position_or_order refused (lines 134-138)
RefusedEntry == last' \in {"fetch_positions", "fetch_open_orders"}

\* C23: the step that ends a place_entry_order call hands the caller the
\* trade id when the exchange had accepted the entry, the reason
\* exchange-rejected when the exchange rejected the submission and the reason
\* already-open when the entry check refused the call.
C23_EntryResult ==
    [][/\ AcceptedEnd =>
             /\ place_entry_order_return("accepted").trade_id = om'.current_trade_id
             /\ om'.current_trade_id # None
       /\ RejectedEntry =>
             place_entry_order_return("rejected").reason = "exchange-rejected"
       /\ RefusedEntry =>
             place_entry_order_return("refused").reason = "already-open"]_vars

\* the step just taken ended a cycle of check_orders_status or OrderMonitor.run:
\* it was no start of the process and no call of place_entry_order, and it
\* was no step of the environment (the exchange changes orders only on a
\* cancel request of the cycle, and time passes between the cycles)
CycleEnd ==
    /\ deployment \in {"main", "monitor"}
    /\ pc["main"] \in {"loop", "check", "co_main", "co_cancel"}
    /\ pc'["main"] = "loop"
    /\ last' \notin {"restart", "restart_stale", "restart_reset", "restart_clean",
                  "restart_unread", EntryRequest, "fetch_positions",
                  "fetch_open_orders"}
    /\ ex' = ex \/ cancel_requests' # <<>>
    /\ om'.order_lock_until \in {om.order_lock_until, LOCK_SEC}
    /\ om'.order_timestamp \in {om.order_timestamp, -1}

\* C24: at the end of a place_entry_order call that posted an entry order
\* (accepted or rejected), and at the end of a reconciliation cycle that
\* changed the persisted projection of the manager (trade id, side, level, lot
\* size, entry price, TP/SL order ids), the state file holds that projection.
C24_PersistenceFollows ==
    [][(\/ AcceptedEnd
        \/ RejectedEntry
        \/ CycleEnd /\ Snapshot(om)' # Snapshot(om))
       => state_file' = Snapshot(om)']_vars

\* the step just taken was a start of the process that kept the state file
\* and interrupted a call of _save_trade_state
SaveInterrupted ==
    /\ pc["main"] \in {"save", "save_dump"}
    /\ last' \in {"restart", "restart_stale", "restart_reset", "restart_unread"}

\* C25: a start that interrupts a save finds a complete snapshot (or no file),
\* never a partial one, and with no reset timeout a save at level 2 or more,
\* whose previous snapshot is at the level or one below, is never followed by
\* a start at level 0.
C25_AtomicSave ==
    [][SaveInterrupted =>
          /\ ~load_failed(state_file)
          /\ (MARTINGALE_RESET_TIMEOUT = 0 /\ om.consecutive_losses >= 2)
                => om'.consecutive_losses >= om.consecutive_losses - 1]_vars

\* C26: the step that gets an entry order accepted leaves the manager with a
\* trade id that is not None and is the id generated for that entry, and
\* while the exchange holds the position no step changes the trade id, a
\* start of the process that keeps the state file included.
C26_TradeIdStable ==
    [][/\ AcceptedEntry =>
             /\ om'.current_trade_id # None
             /\ om'.current_trade_id = NewTradeId
       /\ (ex.pos > 0 /\ ex'.pos > 0 /\ last' # "restart_clean")
             => om'.current_trade_id = om.current_trade_id]_vars

\* the SL orders that the manager tracks and the exchange reports canceled
CanceledSL == {o \in Values(om.sl_order_ids) : ex.status[o] = "canceled"}

\* C27: when the exchange answers every status query, a cycle that finds a
\* tracked SL order canceled, with no entry order recorded and every tracked
\* TP order still open, leaves that SL order untracked, records no result and
\* leaves the lot size and the loss count as they were.
C27_CanceledSLCleared ==
    [][(/\ last' = Answered
        /\ pc'["main"] = "loop"
        /\ CanceledSL # {}
        /\ om.entry_order_id = None
        /\ \A o \in Values(om.tp_order_ids) : ex.status[o] = "open")
       => /\ CanceledSL \cap Values(om'.sl_order_ids) = {}
          /\ results' = results
          /\ SizingUnchanged]_vars

\* the minimum order steps of an exchange that the model's lot sizes can tell
\* apart, in units of 1/LotScale: a quarter of a contract and one contract
MinSteps == {1, LotScale}

\* the step just taken sent the request for an entry order (place_entry_order,
\* lines 186-197); the size it asked for is the manager's lot size
EntrySubmitted ==
    /\ deployment \in {"main", "monitor"}
    /\ last' = EntryRequest

\* C28: whatever the minimum step of the exchange is, place_entry_order sends
\* no entry order whose size is below it.
C28_SizeTooSmallRefused ==
    [][EntrySubmitted =>
          \A step \in MinSteps : om'.dynamic_lot_size >= step]_vars

\* the step just taken stopped the process and started it again
Restarted ==
    last' \in {"restart", "restart_stale", "restart_reset", "restart_clean",
               "restart_unread"}

\* C29: a stop and start of the process sends no cancel request and changes
\* no order at the exchange, and a start that restores a snapshot that is not
\* stale tracks the TP and SL order ids that were tracked before the stop and,
\* when a position was open with a TP order tracked or its retry pending,
\* still has a TP order tracked or its retry pending.
C29_RestartKeepsProtection ==
    [][/\ Restarted => (cancel_requests' = <<>> /\ ex' = ex)
       /\ last' = "restart" =>
             /\ Values(om'.tp_order_ids) = Values(om.tp_order_ids)
             /\ Values(om'.sl_order_ids) = Values(om.sl_order_ids)
             /\ (ex.pos > 0 /\ ExitCovered) => ExitCovered']_vars

\* the step just taken was a call of queue_exit_market for the entry order
\* that the task holds
QueuedFor(t) == pc[t] = "queue_exit" /\ pc'[t] # "queue_exit"

\* every TP payload in the exit queue is followed by the SL payload of the
\* same entry: the worker never finds a TP payload queued without its SL
QueuePaired ==
    \A i \in 1..Len(core.exit_queue) :
        core.exit_queue[i][1] = "tp" =>
            /\ i < Len(core.exit_queue)
            /\ core.exit_queue[i + 1] = <<"sl", core.exit_queue[i][2]>>

\* C30: the step of queue_exit_market leaves the entry order id in the exit
\* map with both exit ids unset and the exit queue longer by exactly the TP
\* payload followed by the SL payload of that entry, and in no state does the
\* queue hold a TP payload without the SL payload of the same entry behind it.
C30_QueueExitAtomic ==
    /\ []QueuePaired
    /\ [][\A t \in Tasks : QueuedFor(t) =>
             /\ HasKey(core'.exit_map, loc[t].entry_id)
             /\ Get(core'.exit_map, loc[t].entry_id) = NoPair
             /\ core'.exit_queue = core.exit_queue \o
                    <<<<"tp", loc[t].entry_id>>, <<"sl", loc[t].entry_id>>>>]_vars
C30_Witness ==
    /\ deployment = "core"
    /\ Len(core.exit_queue) >= 2
    /\ \E e \in Keys(core.exit_map) :
          /\ Get(core.exit_map, e) = NoPair
          /\ core.exit_queue[Len(core.exit_queue) - 1] = <<"tp", e>>
          /\ core.exit_queue[Len(core.exit_queue)] = <<"sl", e>>

\* C31: every change of the order-tracking map _exit_map is made by a thread
\* that is inside the `with self._queue_lock` block; a pair leaves the map
\* only through on_fill's delete for the entry it matched, and on_fill never
\* deletes a pair that is no longer there.
MapWritten == core'.exit_map # core.exit_map
InsideLock == \E t \in Tasks : pc[t] = "queue_locked"
FillDeletes(k) == pc["aux"] = "ws_del" /\ loc["aux"].entry_id = k
PairPresent == pc["aux"] = "ws_del" => HasKey(core.exit_map, loc["aux"].entry_id)
PairsKept ==
    \A k \in Keys(core.exit_map) :
        \/ HasKey(core'.exit_map, k)
        \/ FillDeletes(k) /\ last' = FillRemoved
C31_PairsSafe == []PairPresent /\ [][PairsKept]_vars
C31_SingleWriter ==
    /\ []PairPresent
    /\ [][PairsKept /\ (MapWritten => InsideLock)]_vars

\* the results that the step just taken has added
NewResults == {i \in 1..Len(results') : i > Len(results)}
\* C32: outside a start of the process, the sizing level and the lot size
\* change only in a step that records a TP or SL order as filled, and no step
\* records a result for an order it found canceled: a canceled TP order
\* yields no trade result, no loss and no larger lot.
C32_SizingOnlyOnFill ==
    [][~Restarted =>
          /\ ~SizingUnchanged => \E i \in NewResults : results'[i].status = "closed"
          /\ \A i \in NewResults : results'[i].status = "closed"]_vars

\* the step just taken met an exchange error that a later attempt can get
\* past: the position or open-order query of place_entry_order failed, a
\* status fetch stayed unanswered after its retries, or a cancel request left
\* the order open
TransientError ==
    \/ last' \in {"fetch_positions", "fetch_open_orders", StatusUnknown}
    \/ \E i \in 1..Len(cancel_requests') : ex'.status[cancel_requests'[i]] = "open"
\* C33: a step that meets a transient exchange error does not stop trading:
\* the loop that was running is still running after it, so a further cycle
\* and a later entry follow.
C33_ErrorKeepsRunning ==
    [][TransientError /\ is_bot_running => is_bot_running']_vars

\* the step just taken was a cycle that got the status of the outstanding
\* entry order answered and read "canceled"
EntryCanceledSeen ==
    /\ last' = Answered
    /\ om.entry_order_id # None
    /\ ex.status[om.entry_order_id] = "canceled"
\* C34: the cycle that observes the outstanding entry order canceled leaves
\* no entry order id and no TP or SL order tracked, leaves the sizing level,
\* the lot size and the loss counters as they were, and records no result.
C34_CanceledEntryCleared ==
    [][EntryCanceledSeen =>
          /\ om'.entry_order_id = None
          /\ om'.tp_order_ids = EmptyDict
          /\ om'.sl_order_ids = EmptyDict
          /\ SizingUnchanged
          /\ bot_monitor'.consecutive_losses = bot_monitor.consecutive_losses
          /\ Len(results') = Len(results)]_vars

C34_Witness ==
    /\ last = Answered
    /\ om.entry_order_id = None
    /\ Tracked(om) = {}
    /\ results = <<>>
    /\ Entries # {}
    /\ \A o \in Entries : ex.status[o] = "canceled"

\* the condition of the loss-streak rule of on_trade (risk_guard.py line 58)
StreakRule(g) ==
    Cardinality({i \in 1..Len(g.consec_losses) : g.consec_losses[i] < 0})
        >= MAX_CONSECUTIVE_LOSS
\* the most recent MAX_CONSECUTIVE_LOSS results of the day are all losses
LastAllLosses(r) ==
    /\ Len(r) >= MAX_CONSECUTIVE_LOSS
    /\ \A i \in 1..Len(r) : i > Len(r) - MAX_CONSECUTIVE_LOSS => r[i] < 0
\* C35: a call of on_trade meets the loss-streak rule exactly when the most
\* recent MAX_CONSECUTIVE_LOSS results recorded on the current day are all
\* losses, and then the stop signal is raised; a result that is no loss among
\* them, or fewer results than the cap, keep the rule from firing.
C35_StreakRule ==
    [][last' = ToldTrade =>
          /\ StreakRule(risk_guard') <=> LastAllLosses(results')
          /\ StreakRule(risk_guard') => risk_guard'.stop_event]_vars

C35_Witness ==
    /\ last = ToldTrade
    /\ Len(results) > MAX_CONSECUTIVE_LOSS
    /\ results[1] > 0
    /\ LastAllLosses(results)
    /\ risk_guard.daily_pnl * 100 > MAX_DAILY_LOSS_PCT * Balance
    /\ risk_guard.stop_event

\* the TP orders that the step just taken has submitted
NewTps == {o \in OrderIds : ex'.kind[o] = "tp" /\ ex.kind[o] # "tp"}
\* the position sizes for which a TP order is tracked
TpSizes(o) == {k[2] : k \in Keys(o.tp_order_ids)}
OneTpRecorded ==
    /\ Cardinality(NewTps) = 1
    /\ Len(om'.tp_order_ids) = Len(om.tp_order_ids) + 1
    /\ NewTps \subseteq Values(om'.tp_order_ids)
    /\ loc["main"].attempt < max_attempts
TpCalled == pc["main"] = "tp_call"
TpSucceeds == pc["main"] \in {"tp_call", "tp_sleep"} /\ pc'["main"] = "tp_true"
RestartedFromFile ==
    last' \in {"restart", "restart_stale", "restart_reset", "restart_unread"}
\* the TP and SL orders whose fill the running process has recorded
Processed ==
    {results[i].oid : i \in {j \in ThisRun(results) : results[j].status = "closed"}}
\* the orders whose result a run before this one has recorded
ProcessedEarlier ==
    {results[i].oid : i \in {j \in 1..Len(results) : results[j].run = "earlier"}}
C38_HaltPermanent ==
    [][/\ (bot_monitor.alert_sent /\ ~Restarted) =>
             /\ ~bot_monitor'.monitoring_active
             /\ bot_monitor'.alert_sent
             /\ bot_monitor'.alerts = bot_monitor.alerts
       /\ bot_monitor'.alert_sent => ~bot_monitor'.monitoring_active
       /\ bot_monitor'.alerts <= 1
       /\ risk_guard.stop_event => risk_guard'.stop_event]_vars

\* the retry of the TP placement has just failed on every attempt, as the
\* placement it retries had before: both are logged as errors, so
\* trigger_alert was reached twice
C38_Witness ==
    /\ deployment = "main"
    /\ pc["main"] = "co_main"
    /\ retry_needed(om)
    /\ bot_monitor.alerts = 1
    /\ ~bot_monitor.monitoring_active

\* C39: in main.py's process, after every step that records trade results
\* BotMonitor.consecutive_losses equals OrderManager.consecutive_losses, also
\* when the manager was restored from a state file with a loss count above 0.
C39_SameStreak ==
    [][(deployment = "main" /\ NewResults # {}) =>
          bot_monitor'.consecutive_losses = om'.consecutive_losses]_vars

\* the step just taken was a place_entry_order call that recorded a new entry
\* order in place of a recorded one
EntryReplaced ==
    /\ last' = EntryRequest
    /\ om.entry_order_id # None
    /\ om'.entry_order_id # om.entry_order_id
\* the step just taken was a place_entry_order call, made with an entry order
\* recorded, whose status query stayed unanswered after the retries
EntryStatusUnknown ==
    /\ om.entry_order_id # None
    /\ \E side \in Sides, posOk, ordOk, resp \in BOOLEAN :
          place_entry_order("main", side, posOk, FALSE, ordOk, resp)
\* C40: place_entry_order replaces a recorded entry order id only when that
\* order is filled or canceled, and a call that gets no status for the
\* recorded entry order after the retries submits no entry order.
C40_NoOrphanEntry ==
    [][/\ EntryReplaced => ex.status[om.entry_order_id] \in {"closed", "canceled"}
       /\ EntryStatusUnknown => Entries' = Entries]_vars

====
